---- MODULE Spec2Model ----
(***************************************************************************)
(* Watch & Ask: a model of the quiz session (app.py), the caption          *)
(* resolver (captions.py, utils_youtube.py) and the quiz assembler         *)
(* (app.py build_qa, llm_qgen.py).                                         *)
(*                                                                         *)
(* Each component has its own specification over the variables it uses;    *)
(* the variables of the other components stay at their idle values.        *)
(*   Spec          the quiz session: handle_url_submit, submit_answer,     *)
(*                 get_current_question and the buttons of display_quiz    *)
(*   SpecId        extract_video_id and the head of build_qa, on URLs      *)
(*                 spelled character by character                          *)
(*   SpecCaptions  fetch_captions, step by step, and get_transcript_text   *)
(***************************************************************************)
EXTENDS Integers, Sequences, FiniteSets, TLC

(***************************************************************************)
(* Bounds of the model.                                                    *)
(***************************************************************************)
\* longest question list a modelled quiz holds
MaxQuizLen == 3
\* longest id part of a modelled URL
MaxBodyLen == 12
\* most caption tracks yt-dlp lists as automatic captions of a modelled video
MaxTracks == 3

(***************************************************************************)
(* Python values.                                                          *)
(***************************************************************************)
\* video_jump_time = None (int(start_time) is never negative)
NoJump == -1

VARIABLES
    \* ---- quiz session (st.session_state of app.py) ----
    quiz_state,         \* st.session_state.quiz_state: the dict of build_qa, or NoQuiz
    is_second_attempt,  \* st.session_state['is_second_attempt']
    video_jump_time,    \* st.session_state['video_jump_time'], NoJump for None
    feedback,           \* the feedback string the last submit_answer returned
    shown,              \* the value the last get_current_question returned
    call,               \* the last operation performed and its arguments
    submissions,        \* the submit_answer calls the loaded quiz has received
    \* ---- video id extraction at the head of build_qa (app.py 59-67) ----
    url_in,             \* the url argument
    id_pc,              \* "start", then where the head of build_qa ended
    vid,                \* the value of extract_video_id(url)
    ydl_url,            \* the URL fetch_captions hands to yt-dlp, <<>> when none
    \* ---- caption resolution: fetch_captions (captions.py 150-263) ----
    cap_pc,             \* where the call is: "start", "cookies", "info", "returned", "raised"
    cap_arg,            \* the url_or_id argument
    pref_arg,           \* the preferred_languages argument, PyNone for None
    tmp_files,          \* the temporary files that exist on disk
    cookies_file,       \* the local cookies_file: a path, or PyNone
    info,               \* the info dict yt-dlp returned
    cap_result,         \* the returned (captions, lang_code), or the error raised
    tt_env,             \* what the transcript API and yt-dlp answered to get_transcript_text
    \* ---- quiz assembly: build_qa after the captions (app.py 71-102) ----
    build_pc,           \* "idle", "loop", "end", "returned", "raised"
    build_vid,          \* the local vid
    lang_name,          \* the local lang_name
    chunks,             \* the local chunks: the windows chunk_by_time returned
    chunk_i,            \* the number of the chunk the loop is at
    qa,                 \* the local qa
    seen,               \* the local seen
    previous_questions, \* the local previous_questions
    gen_log,            \* the generate_questions calls made, how each ended, its items
    build_result,       \* what build_qa returned
    \* ---- a call of chunk_by_time (app.py 20-32) ----
    chunk_pc,           \* "idle", "start", "returned"
    frags,              \* the captions argument
    windows,            \* the returned list of (start, fragments)
    \* ---- a call of generate_quiz_from_transcript (llm_simple.py 29-111) ----
    simple_pc,          \* "idle", "start", "returned"
    simple_response,    \* what the generation call answers
    simple_questions    \* the returned list of questions

quizVars == <<quiz_state, is_second_attempt, video_jump_time, feedback, shown, call,
              submissions>>

idVars == <<url_in, id_pc, vid, ydl_url>>

capVars == <<cap_pc, cap_arg, pref_arg, tmp_files, cookies_file, info, cap_result, tt_env>>

buildVars == <<build_pc, build_vid, lang_name, chunks, chunk_i, qa, seen,
               previous_questions, gen_log, build_result>>

chunkVars == <<chunk_pc, frags, windows>>

simpleVars == <<simple_pc, simple_response, simple_questions>>

vars == <<quiz_state, is_second_attempt, video_jump_time, feedback, shown, call,
          submissions,
          url_in, id_pc, vid, ydl_url,
          cap_pc, cap_arg, pref_arg, tmp_files, cookies_file, info, cap_result, tt_env,
          build_pc, build_vid, lang_name, chunks, chunk_i, qa, seen,
          previous_questions, gen_log, build_result,
          chunk_pc, frags, windows,
          simple_pc, simple_response, simple_questions>>

(***************************************************************************)
(* Quiz records: the entries build_qa appends to qa (app.py line 90).      *)
(***************************************************************************)
Question(n) ==
    [start |-> 75 * (n - 1),
     q |-> <<"q", n>>,
     a |-> <<"a", n>>,
     choices |-> << <<"a", n>>, <<"d", 1>>, <<"d", 2>> >>]

QuestionIds == 1..MaxQuizLen

\* every string a caller can pass as the choice
Choices == {<<"a", n>> : n \in QuestionIds} \cup {<<"d", 1>>, <<"d", 2>>}

\* sequences of distinct values of S, of length lo..hi
InjSeqs(S, lo, hi) ==
    UNION {{s \in [1..n -> S] : \A i, j \in 1..n : i # j => s[i] # s[j]} : n \in lo..hi}

\* build_qa returns None, modelled by the state with no question: a state it
\* returns always has one (line 98)
NoQuiz == [video_id |-> "", qa |-> <<>>, idx |-> 0, score |-> 0]

\* the states build_qa can return (line 101): a non-empty list of questions
\* with distinct question strings, in the order of their chunks' starts
\* (the loop of line 78 appends them chunk after chunk), idx = 0 and score = 0
BuiltStates ==
    {[video_id |-> "vid", qa |-> [i \in DOMAIN s |-> Question(s[i])], idx |-> 0, score |-> 0] :
        s \in {t \in InjSeqs(QuestionIds, 1, MaxQuizLen) :
                  \A i, j \in DOMAIN t : i < j => t[i] < t[j]}}

NumQuestions(state) == Len(state.qa)

(***************************************************************************)
(* submit_answer (app.py 118-141).  The value is the returned state, the   *)
(* session flag after the call and the feedback string.                    *)
(***************************************************************************)
\* mutant: the second-attempt branch is missing, a wrong answer never advances
submit_answer_no_second(state, second, choice) ==
    LET i == state.idx IN
    IF i >= Len(state.qa)
    THEN [state |-> state, second |-> second, feedback |-> "Finished."]
    ELSE IF choice = state.qa[i + 1].a
         THEN [state |-> [state EXCEPT !.score = @ + 1, !.idx = @ + 1],
               second |-> second, feedback |-> "Correct!"]
         ELSE [state |-> state, second |-> TRUE, feedback |-> "Not quite."]

\* mutant: a wrong first attempt is scored as if it were right
submit_answer_scores_wrong(state, second, choice) ==
    LET i == state.idx IN
    IF i >= Len(state.qa)
    THEN [state |-> state, second |-> second, feedback |-> "Finished."]
    ELSE LET is_correct == (choice = state.qa[i + 1].a) IN
         IF second
         THEN [state |-> [state EXCEPT !.score = @ + (IF is_correct THEN 1 ELSE 0),
                                       !.idx = @ + 1],
               second |-> FALSE,
               feedback |-> IF is_correct THEN "Correct!" ELSE "Still incorrect, but moving on."]
         ELSE IF is_correct
              THEN [state |-> [state EXCEPT !.score = @ + 1, !.idx = @ + 1],
                    second |-> second, feedback |-> "Correct!"]
              ELSE [state |-> [state EXCEPT !.score = @ + 1],
                    second |-> TRUE, feedback |-> "Not quite."]

\* mutant: the completion guard is missing, a finished quiz still advances
submit_answer_no_guard(state, second, choice) ==
    LET i == state.idx IN
    IF i >= Len(state.qa)
    THEN [state |-> [state EXCEPT !.idx = @ + 1], second |-> FALSE, feedback |-> "Correct!"]
    ELSE LET is_correct == (choice = state.qa[i + 1].a) IN
         IF second
         THEN [state |-> [state EXCEPT !.score = @ + (IF is_correct THEN 1 ELSE 0),
                                       !.idx = @ + 1],
               second |-> FALSE,
               feedback |-> IF is_correct THEN "Correct!" ELSE "Still incorrect, but moving on."]
         ELSE IF is_correct
              THEN [state |-> [state EXCEPT !.score = @ + 1, !.idx = @ + 1],
                    second |-> second, feedback |-> "Correct!"]
              ELSE [state |-> state, second |-> TRUE, feedback |-> "Not quite."]

submit_answer(state, second, choice) ==
    LET i == state.idx IN
    IF i >= Len(state.qa)
    THEN [state |-> state, second |-> second, feedback |-> "Finished."]
    ELSE LET is_correct == (choice = state.qa[i + 1].a) IN
         IF second
         THEN [state |-> [state EXCEPT !.score = @ + (IF is_correct THEN 1 ELSE 0),
                                       !.idx = @ + 1],
               second |-> FALSE,
               feedback |-> IF is_correct THEN "Correct!" ELSE "Still incorrect, but moving on."]
         ELSE IF is_correct
              THEN [state |-> [state EXCEPT !.score = @ + 1, !.idx = @ + 1],
                    second |-> second, feedback |-> "Correct!"]
              ELSE [state |-> state, second |-> TRUE, feedback |-> "Not quite."]

(***************************************************************************)
(* get_current_question (app.py 105-115): none at the end, otherwise the   *)
(* prompt (number, question, start) and the choices, the first two swapped *)
(* at odd indices.                                                         *)
(***************************************************************************)
NoShown == [none |-> TRUE, num |-> 0, q |-> <<>>, start |-> 0, ordered |-> <<>>]

get_current_question(state) ==
    LET i == state.idx IN
    IF i >= Len(state.qa)
    THEN NoShown
    ELSE LET item == state.qa[i + 1]
             c == item.choices
             ordered == IF i % 2 = 1 /\ Len(c) >= 2
                        THEN [k \in DOMAIN c |-> IF k = 1 THEN c[2] ELSE IF k = 2 THEN c[1] ELSE c[k]]
                        ELSE c
         IN [none |-> FALSE, num |-> i + 1, q |-> item.q, start |-> item.start,
             ordered |-> ordered]

\* the swap of lines 113-114 done on item["choices"] itself, not on a copy
get_current_question_in_place(state) ==
    LET i == state.idx IN
    IF i >= Len(state.qa) \/ i % 2 = 0 \/ Len(state.qa[i + 1].choices) < 2
    THEN state
    ELSE LET c == state.qa[i + 1].choices
         IN  [state EXCEPT !.qa[i + 1].choices =
                [k \in DOMAIN c |-> IF k = 1 THEN c[2] ELSE IF k = 2 THEN c[1] ELSE c[k]]]

\* the state after get_current_question(state): ordered is a copy of the
\* choices (line 111), so the swap leaves the state as it was
get_current_question_state(state) == state

\* the start second of the embedded video (display_quiz 250-255): the jump
\* time of the session when it is not None, else the current question's start
video_start(state, jump_time) ==
    IF jump_time # NoJump THEN jump_time ELSE state.qa[state.idx + 1].start

(***************************************************************************)
(* The quiz session.                                                       *)
(***************************************************************************)
NoCall == [op |-> "init", choice |-> <<>>]

\* The record of the submissions of a quiz: whether the retry flag was clear
\* when the quiz was loaded, the calls of submit_answer made at the current
\* index, and those made at all indices below the length of the quiz.  Both
\* counts stop at MaxSubmissions.
MaxSubmissions == 2 * MaxQuizLen + 1

NewQuizRecord(flag) == [clear |-> ~flag, here |-> 0, total |-> 0]

CountUp(n) == IF n < MaxSubmissions THEN n + 1 ELSE n

\* the record after submit_answer took the quiz from state to after
Submitted(rec, state, after) ==
    IF state.idx >= Len(state.qa)
    THEN rec
    ELSE [rec EXCEPT !.here = IF after.idx = state.idx THEN CountUp(@) ELSE 0,
                     !.total = CountUp(@)]

\* init_session_state (app.py 145-159)
QuizInit ==
    /\ quiz_state = NoQuiz
    /\ is_second_attempt = FALSE
    /\ video_jump_time = NoJump
    /\ feedback = ""
    /\ shown = NoShown
    /\ call = NoCall
    /\ submissions = NewQuizRecord(FALSE)

\* handle_url_submit (app.py 162-173) with the value build_qa returned
HandleUrlSubmit ==
    \E built \in BuiltStates \cup {NoQuiz} :
        /\ quiz_state' = built
        /\ video_jump_time' = NoJump
        /\ call' = [op |-> "handle_url_submit", choice |-> <<>>]
        /\ submissions' = NewQuizRecord(is_second_attempt)
        /\ UNCHANGED <<is_second_attempt, feedback, shown>>

\* a call of submit_answer on the session's quiz (display_quiz 294-297, or
\* any other caller of the function)
SubmitAnswer ==
    /\ quiz_state # NoQuiz
    /\ \E choice \in Choices :
        LET r == submit_answer(quiz_state, is_second_attempt, choice) IN
        /\ quiz_state' = r.state
        /\ is_second_attempt' = r.second
        /\ feedback' = r.feedback
        /\ call' = [op |-> "submit_answer", choice |-> choice]
        /\ submissions' = Submitted(submissions, quiz_state, r.state)
    /\ UNCHANGED <<video_jump_time, shown>>

\* a call of get_current_question on the session's quiz (display_quiz 263)
GetCurrentQuestion ==
    /\ quiz_state # NoQuiz
    /\ quiz_state' = get_current_question_state(quiz_state)
    /\ shown' = get_current_question(quiz_state')
    /\ call' = [op |-> "get_current_question", choice |-> <<>>]
    /\ UNCHANGED <<is_second_attempt, video_jump_time, feedback, submissions>>

\* the "Try again?" button (display_quiz 273-278) and jump_to_timestamp (176-178)
JumpToTimestamp ==
    /\ quiz_state # NoQuiz
    /\ quiz_state.idx < Len(quiz_state.qa)
    /\ is_second_attempt
    /\ video_jump_time' = quiz_state.qa[quiz_state.idx + 1].start
    /\ call' = [op |-> "jump_to_timestamp", choice |-> <<>>]
    /\ UNCHANGED <<quiz_state, is_second_attempt, feedback, shown, submissions>>

\* the "Start New Quiz" button of the completion screen (display_quiz 233-241)
StartNewQuiz ==
    /\ quiz_state # NoQuiz
    /\ quiz_state.idx >= Len(quiz_state.qa)
    /\ quiz_state' = NoQuiz
    /\ video_jump_time' = NoJump
    /\ is_second_attempt' = FALSE
    /\ call' = [op |-> "start_new_quiz", choice |-> <<>>]
    /\ submissions' = NewQuizRecord(FALSE)
    /\ UNCHANGED <<feedback, shown>>

QuizNext ==
    \/ HandleUrlSubmit
    \/ SubmitAnswer
    \/ GetCurrentQuestion
    \/ JumpToTimestamp
    \/ StartNewQuiz

(***************************************************************************)
(* Claims on the quiz session.                                             *)
(***************************************************************************)
Idx == quiz_state.idx
Score == quiz_state.score
IsSubmitStep == call'.op = "submit_answer"

\* C1: second-chance policy of submit_answer. At an index i < N, with the retry
\* flag clear, a wrong choice leaves idx and score unchanged and sets the flag,
\* and a correct choice advances idx to i+1 and adds 1 to score; with the flag
\* set (the submission following a wrong first one), the submission advances
\* idx to i+1 whatever the choice, adds 1 to score iff it is correct, and
\* clears the flag.
C1_SecondChance ==
    [][(IsSubmitStep /\ Idx < NumQuestions(quiz_state)) =>
        LET i == Idx
            is_correct == (call'.choice = quiz_state.qa[i + 1].a)
        IN /\ (~is_second_attempt /\ ~is_correct) =>
                /\ quiz_state'.idx = i
                /\ quiz_state'.score = Score
                /\ is_second_attempt'
           /\ (~is_second_attempt /\ is_correct) =>
                /\ quiz_state'.idx = i + 1
                /\ quiz_state'.score = Score + 1
           /\ is_second_attempt =>
                /\ quiz_state'.idx = i + 1
                /\ quiz_state'.score = Score + (IF is_correct THEN 1 ELSE 0)
                /\ ~is_second_attempt'
      ]_vars

\* C1 witness: a second submission at an index was wrong again and the quiz
\* moved on without scoring
C1_Witness ==
    /\ call.op = "submit_answer"
    /\ feedback = "Still incorrect, but moving on."
    /\ ~is_second_attempt
    /\ Idx = 1
    /\ Score = 0

\* C2: in every state 0 <= idx <= N and 0 <= score <= idx, and a call of
\* submit_answer or get_current_question never decreases idx or score and
\* raises idx by at most 1.
C2_IdxScoreBounds ==
    /\ [](/\ 0 <= Idx
          /\ Idx <= NumQuestions(quiz_state)
          /\ 0 <= Score
          /\ Score <= Idx)
    /\ [][call'.op \in {"submit_answer", "get_current_question"} =>
            /\ quiz_state'.idx >= Idx
            /\ quiz_state'.idx <= Idx + 1
            /\ quiz_state'.score >= Score
            /\ quiz_state'.qa = quiz_state.qa
         ]_vars

\* C2 witness: a quiz of at least two questions answered to its end, not all
\* of them correctly
C2_Witness ==
    /\ NumQuestions(quiz_state) >= 2
    /\ Idx = NumQuestions(quiz_state)
    /\ Score >= 1
    /\ Score < Idx

\* C3: once idx >= N a call of submit_answer changes neither idx, score, the
\* question list nor the retry flag, and reports "Finished."
C3_CompleteNoOp ==
    [][(IsSubmitStep /\ Idx >= NumQuestions(quiz_state)) =>
        /\ quiz_state' = quiz_state
        /\ is_second_attempt' = is_second_attempt
        /\ video_jump_time' = video_jump_time
        /\ feedback' = "Finished."
      ]_vars

\* C3 witness: submit_answer was called on a completed quiz
C3_Witness ==
    /\ call.op = "submit_answer"
    /\ feedback = "Finished."
    /\ quiz_state # NoQuiz
    /\ Idx = NumQuestions(quiz_state)

\* C18: the retry flag belongs to the question answered wrongly: it is set
\* only while the quiz is at an index whose last submission was a wrong first
\* attempt, and it is clear once handle_url_submit has loaded a quiz, so that
\* a wrong first answer to the first question of that quiz does not advance.
C18_FlagScoped ==
    /\ call.op = "handle_url_submit" => ~is_second_attempt
    /\ is_second_attempt =>
          /\ quiz_state # NoQuiz
          /\ Idx < NumQuestions(quiz_state)
          /\ feedback = "Not quite."

\* C19: when a submission advances idx to a question j that is then displayed,
\* the embedded video starts at question j's own start timestamp; a jump time
\* set by the retry jump at an earlier question does not persist.
C19_VideoAtOwnStart ==
    [][(IsSubmitStep /\ Idx' = Idx + 1 /\ Idx' < NumQuestions(quiz_state'))
          => video_start(quiz_state', video_jump_time')
                = quiz_state'.qa[Idx' + 1].start]_vars

\* C17: a call of get_current_question changes nothing of the quiz state
\* (idx, score, the questions and the stored order of their choices); it
\* returns what the state determines, so a second call that follows with no
\* submission in between returns the same prompt and the same order of
\* choices; at idx = N it returns none.
C17_ReadOnlyIdempotent ==
    [][call'.op = "get_current_question" =>
        /\ quiz_state' = quiz_state
        /\ shown' = get_current_question(quiz_state)
        /\ call.op = "get_current_question" => shown' = shown
        /\ Idx >= NumQuestions(quiz_state) => shown' = NoShown
        /\ Idx < NumQuestions(quiz_state) =>
              /\ shown'.num = Idx + 1
              /\ shown'.q = quiz_state.qa[Idx + 1].q
              /\ {shown'.ordered[k] : k \in DOMAIN shown'.ordered}
                    = {quiz_state.qa[Idx + 1].choices[k] : k \in DOMAIN quiz_state.qa[Idx + 1].choices}
      ]_vars

\* the question at an odd index was shown, its first two choices swapped, and
\* the stored choices still begin with the correct answer
C17_Witness ==
    /\ call.op = "get_current_question"
    /\ Idx = 1
    /\ shown.num = 2
    /\ shown.ordered[2] = quiz_state.qa[2].a
    /\ quiz_state.qa[2].choices[1] = quiz_state.qa[2].a

\* the submissions of a quiz loaded with the retry flag clear: one is pending
\* at the current index exactly when the flag is set, and the indices passed
\* took one or two submissions each
SubmissionsCounted ==
    (quiz_state # NoQuiz /\ submissions.clear) =>
        /\ submissions.here = (IF is_second_attempt THEN 1 ELSE 0)
        /\ Idx + submissions.here <= submissions.total
        /\ submissions.total <= 2 * Idx + submissions.here
        /\ Idx <= NumQuestions(quiz_state)
        /\ Idx = NumQuestions(quiz_state) =>
              /\ submissions.here = 0
              /\ NumQuestions(quiz_state) <= submissions.total
              /\ submissions.total <= 2 * NumQuestions(quiz_state)

\* idx moves within a quiz only by one, and only by a submission
AdvancesBySubmission ==
    [][(quiz_state # NoQuiz /\ quiz_state'.qa = quiz_state.qa /\ Idx' # Idx
            /\ call'.op # "handle_url_submit")
          => IsSubmitStep /\ Idx' = Idx + 1 /\ submissions.here <= 1]_vars

\* the quiz stays from some point on at the index i of one of its questions
StaysAt(i) ==
    <>[](quiz_state # NoQuiz /\ i < NumQuestions(quiz_state) /\ Idx = i)

\* C20: bounded completion.  In a quiz of N questions loaded with the retry
\* flag clear every index receives at least one and at most two submissions
\* before idx advances, so that the quiz is complete (idx = N) after at least
\* N and at most 2N submissions; and while submissions keep arriving the quiz
\* does not stay at one index forever.
C20_BoundedCompletion ==
    /\ []SubmissionsCounted
    /\ AdvancesBySubmission
    /\ \A i \in 0..(MaxQuizLen - 1) :
          []<><<SubmitAnswer>>_vars => ~StaysAt(i)

C20_Witness ==
    /\ quiz_state # NoQuiz
    /\ submissions.clear
    /\ NumQuestions(quiz_state) >= 2
    /\ Idx = NumQuestions(quiz_state)
    /\ submissions.total = 2 * NumQuestions(quiz_state)
    /\ Score = 1

(***************************************************************************)
(* Strings are sequences of one-character strings.  The modelled URLs use  *)
(* lower-case letters, digits and the characters : / . ? = & - ! only, so  *)
(* str.strip() (no white space), unquote (no % or +) and the ; # [ ]       *)
(* handling of urlparse leave them as they are.                            *)
(***************************************************************************)
\* Python None as a string value: no string is spelled with this element
PyNone == <<"<None>">>

Letters == {"a", "b", "c", "d", "e", "f", "g", "h", "i", "j", "k", "l", "m", "n",
            "o", "p", "q", "r", "s", "t", "u", "v", "w", "x", "y", "z"}
Digits == {"0", "1", "2", "3", "4", "5", "6", "7", "8", "9"}
\* the class [\w-] of the regular expressions
IdChars == Letters \cup Digits \cup {"_", "-"}
\* scheme_chars of urllib.parse
SchemeChars == Letters \cup Digits \cup {"+", "-", "."}

Min(a, b) == IF a <= b THEN a ELSE b

\* s[:n]
Take(s, n) == SubSeq(s, 1, Min(n, Len(s)))
\* s[n:] with n counted from 1
Drop(s, n) == SubSeq(s, n, Len(s))
\* s.startswith(t), s.endswith(t), t in s
StartsWith(s, t) == Len(t) <= Len(s) /\ SubSeq(s, 1, Len(t)) = t
EndsWith(s, t) == Len(t) <= Len(s) /\ SubSeq(s, Len(s) - Len(t) + 1, Len(s)) = t
MatchAt(s, t, p) == p + Len(t) - 1 <= Len(s) /\ SubSeq(s, p, p + Len(t) - 1) = t
Contains(s, t) == \E p \in 1..(Len(s) + 1) : MatchAt(s, t, p)
\* the least position >= from of a character of cs in s, Len(s) + 1 when none
FindAny(s, cs, from) ==
    LET hits == {p \in from..Len(s) : s[p] \in cs} IN
    IF hits = {} THEN Len(s) + 1 ELSE CHOOSE p \in hits : \A r \in hits : p <= r

\* s.split(c)
RECURSIVE Split(_, _)
Split(s, c) ==
    LET p == FindAny(s, {c}, 1) IN
    IF p > Len(s) THEN <<s>> ELSE <<SubSeq(s, 1, p - 1)>> \o Split(Drop(s, p + 1), c)

\* s.strip(c)
RECURSIVE LStrip(_, _)
LStrip(s, c) == IF s # <<>> /\ s[1] = c THEN LStrip(Tail(s), c) ELSE s
RECURSIVE RStrip(_, _)
RStrip(s, c) == IF s # <<>> /\ s[Len(s)] = c THEN RStrip(SubSeq(s, 1, Len(s) - 1), c) ELSE s
Strip(s, c) == RStrip(LStrip(s, c), c)

\* bool(s) of a string or None
Truthy(s) == s # PyNone /\ s # <<>>

S_youtu_be == <<"y", "o", "u", "t", "u", ".", "b", "e">>
S_youtube_com == <<"y", "o", "u", "t", "u", "b", "e", ".", "c", "o", "m">>
S_shorts_path == <<"/", "s", "h", "o", "r", "t", "s", "/">>
S_v_eq == <<"v", "=">>
S_youtu_be_slash == <<"y", "o", "u", "t", "u", ".", "b", "e", "/">>
S_shorts_slash == <<"s", "h", "o", "r", "t", "s", "/">>
S_youtu == <<"y", "o", "u", "t", "u">>
S_watch_prefix == <<"h", "t", "t", "p", "s", ":", "/", "/", "w", "w", "w", ".", "y", "o", "u", "t", "u", "b", "e", ".", "c", "o", "m", "/", "w", "a", "t", "c", "h", "?", "v", "=">>

\* the length of a video id: the [:11] slices and the {11} of the patterns
IdLen == 11

(***************************************************************************)
(* urllib.parse.urlparse: scheme, netloc, path and query of a URL.         *)
(***************************************************************************)
urlparse(url) ==
    LET i == FindAny(url, {":"}, 1)
        has_scheme == /\ i > 1
                      /\ i <= Len(url)
                      /\ url[1] \in Letters
                      /\ \A k \in 1..(i - 1) : url[k] \in SchemeChars
        scheme == IF has_scheme THEN SubSeq(url, 1, i - 1) ELSE <<>>
        rest1 == IF has_scheme THEN Drop(url, i + 1) ELSE url
        has_netloc == Take(rest1, 2) = <<"/", "/">>
        delim == FindAny(rest1, {"/", "?", "#"}, 3)
        netloc == IF has_netloc THEN SubSeq(rest1, 3, delim - 1) ELSE <<>>
        rest2 == IF has_netloc THEN Drop(rest1, delim) ELSE rest1
        hash == FindAny(rest2, {"#"}, 1)
        rest3 == SubSeq(rest2, 1, hash - 1)
        qm == FindAny(rest3, {"?"}, 1)
    IN [scheme |-> scheme,
        netloc |-> netloc,
        path |-> SubSeq(rest3, 1, qm - 1),
        query |-> Drop(rest3, qm + 1)]

\* parse_qs(query)[name]: the non-blank values of the fields name=value, in
\* order; <<>> when name is no key of the result
parse_qs(query, name) ==
    LET fields == IF query = <<>> THEN <<>> ELSE Split(query, "&")
        eq(f) == FindAny(f, {"="}, 1)
        keeps(f) == /\ f # <<>>
                    /\ eq(f) <= Len(f)
                    /\ Drop(f, eq(f) + 1) # <<>>
                    /\ SubSeq(f, 1, eq(f) - 1) = name
        kept == SelectSeq(fields, keeps)
    IN [k \in DOMAIN kept |-> Drop(kept[k], eq(kept[k]) + 1)]

\* re.search(r"(?:v=|youtu\.be/|shorts/)([\w-]{11})", url): group 1 of the
\* leftmost match, or None
id_pattern_search(url) ==
    LET alts == {S_v_eq, S_youtu_be_slash, S_shorts_slash}
        id_at(p) == SubSeq(url, p, p + IdLen - 1)
        hit(p, alt) == /\ MatchAt(url, alt, p)
                       /\ p + Len(alt) + IdLen - 1 <= Len(url)
                       /\ \A k \in 1..IdLen : url[p + Len(alt) + k - 1] \in IdChars
        hits == {p \in 1..Len(url) : \E alt \in alts : hit(p, alt)}
    IN IF hits = {} THEN PyNone
       ELSE LET p == CHOOSE x \in hits : \A r \in hits : x <= r
                alt == CHOOSE x \in alts : hit(p, x)
            IN id_at(p + Len(alt))

(***************************************************************************)
(* extract_video_id of captions.py (18-34), the one build_qa imports.      *)
(***************************************************************************)
extract_video_id(url) ==
    IF url = <<>> THEN PyNone
    ELSE LET u == urlparse(url)
             v == parse_qs(u.query, <<"v">>)
         IN IF EndsWith(u.netloc, S_youtu_be)
            THEN Take(Split(Strip(u.path, "/"), "/")[1], IdLen)
            ELSE IF Contains(u.netloc, S_youtube_com) /\ v # <<>>
            THEN Take(v[1], IdLen)
            ELSE IF Contains(u.netloc, S_youtube_com) /\ StartsWith(u.path, S_shorts_path)
            THEN Take(Split(u.path, "/")[3], IdLen)
            ELSE id_pattern_search(url)

\* extract_video_id of utils_youtube.py (9-12)
utils_extract_video_id(url) ==
    IF url = <<>> THEN PyNone ELSE id_pattern_search(url)

\* _normalize_url (captions.py 37-49)
normalize_url(url_or_id) ==
    LET s == url_or_id IN
    IF s = <<>> THEN <<>>
    ELSE IF Len(s) = IdLen /\ \A k \in 1..IdLen : s[k] \in IdChars
    THEN S_watch_prefix \o s
    ELSE IF Contains(s, S_youtube_com) \/ Contains(s, S_youtu_be)
    THEN s
    ELSE IF Truthy(extract_video_id(s))
    THEN S_watch_prefix \o extract_video_id(s)
    ELSE s

(***************************************************************************)
(* The URLs of the model: a prefix, an id part and a suffix.  The id part  *)
(* is a run of the character a of length 0..MaxBodyLen, with at most one   *)
(* character replaced by - (an id character) or ! (no id character).       *)
(***************************************************************************)
U_watch == <<"h", "t", "t", "p", "s", ":", "/", "/", "w", "w", "w", ".", "y", "o", "u", "t", "u", "b", "e", ".", "c", "o", "m", "/", "w", "a", "t", "c", "h", "?", "v", "=">>
U_short == <<"h", "t", "t", "p", "s", ":", "/", "/", "y", "o", "u", "t", "u", ".", "b", "e", "/">>
U_shorts == <<"h", "t", "t", "p", "s", ":", "/", "/", "w", "w", "w", ".", "y", "o", "u", "t", "u", "b", "e", ".", "c", "o", "m", "/", "s", "h", "o", "r", "t", "s", "/">>
U_embed == <<"h", "t", "t", "p", "s", ":", "/", "/", "w", "w", "w", ".", "y", "o", "u", "t", "u", "b", "e", ".", "c", "o", "m", "/", "e", "m", "b", "e", "d", "/">>
U_other == <<"h", "t", "t", "p", "s", ":", "/", "/", "e", "x", "a", "m", "p", "l", "e", ".", "c", "o", "m", "/", "w", "a", "t", "c", "h", "?", "v", "=">>
X_amp == <<"&", "t", "=", "5">>
X_q == <<"?", "t", "=", "5">>

UrlPrefixes == {U_watch, U_short, U_shorts, <<>>, U_embed, U_other}
UrlSuffixes == {<<>>, X_amp, X_q}

IdBodies ==
    {[k \in 1..n |-> "a"] : n \in 0..MaxBodyLen}
    \cup {[k \in 1..n |-> IF k = j THEN c ELSE "a"] :
            n \in 1..MaxBodyLen, j \in 1..MaxBodyLen, c \in {"-", "!"}}

Urls == {p \o b \o x : p \in UrlPrefixes, b \in IdBodies, x \in UrlSuffixes}

\* an 11-character video id
IsVideoId(b) == Len(b) = IdLen /\ \A k \in 1..IdLen : b[k] \in IdChars

\* the four valid input forms of the video id b: the watch URL, the
\* short link and the shorts URL, with or without a time parameter, and the
\* bare id
ValidForms(b) ==
    {U_watch \o b, U_watch \o b \o X_amp,
     U_short \o b, U_short \o b \o X_q,
     U_shorts \o b, U_shorts \o b \o X_q,
     b}

VideoIds == {b \in IdBodies : IsVideoId(b)}

IsValidInput(url) == \E b \in VideoIds : url \in ValidForms(b)

(***************************************************************************)
(* The head of build_qa (app.py 59-67) with the head of fetch_captions     *)
(* (captions.py 161-163, 183), and the head of get_transcript_text         *)
(* (utils_youtube.py 24-29).                                               *)
(***************************************************************************)
IdInit ==
    /\ url_in \in Urls
    /\ id_pc = "start"
    /\ vid = PyNone
    /\ ydl_url = <<>>

IdIdle ==
    /\ url_in = <<>>
    /\ id_pc = "idle"
    /\ vid = PyNone
    /\ ydl_url = <<>>

\* build_qa up to its first return or to the yt-dlp call of fetch_captions
BuildQAHead ==
    /\ id_pc = "start"
    /\ vid' = extract_video_id(url_in)
    /\ IF ~Truthy(vid')
       THEN id_pc' = "invalid_url" /\ ydl_url' = <<>>
       ELSE IF normalize_url(vid') = <<>>
            THEN id_pc' = "no_url" /\ ydl_url' = <<>>
            ELSE id_pc' = "fetch_captions" /\ ydl_url' = normalize_url(vid')
    /\ UNCHANGED url_in

\* get_transcript_text up to its ValueError or to the first transcript request
GetTranscriptHead ==
    /\ id_pc = "start"
    /\ vid' = IF Contains(url_in, S_youtu) THEN utils_extract_video_id(url_in) ELSE url_in
    /\ id_pc' = IF ~Truthy(vid') THEN "value_error" ELSE "transcript_api"
    /\ UNCHANGED <<url_in, ydl_url>>

BuildQAReturned == id_pc \in {"invalid_url", "no_url", "fetch_captions"}

\* C7: fail-fast on malformed input. For every input that is none of the four
\* valid forms, extract_video_id returns None and build_qa returns the
\* invalid-URL error without calling fetch_captions (no URL reaches yt-dlp).
C7_MalformedFailsFast ==
    (BuildQAReturned /\ ~IsValidInput(url_in)) =>
        /\ vid = PyNone
        /\ id_pc = "invalid_url"
        /\ ydl_url = <<>>

\* C8: for each of the four valid forms of a video id, extract_video_id
\* returns that 11-character id and build_qa goes on to caption resolution.
C8_ValidFormsSameId ==
    \A b \in VideoIds :
        (BuildQAReturned /\ url_in \in ValidForms(b)) =>
            /\ vid = b
            /\ id_pc = "fetch_captions"


(***************************************************************************)
(* Caption resolution (captions.py).  A language code is the sequence of   *)
(* its subtags (en-US is <<"en", "US">>), a text is the sequence of its    *)
(* words, a start time is in milliseconds.                                 *)
(***************************************************************************)
L_en == <<"en">>
L_en_US == <<"en", "US">>
L_lv == <<"lv">>
L_es == <<"es">>
L_ru == <<"ru">>
L_de == <<"de">>

\* PREFERRED (captions.py 12)
PREFERRED == <<L_en, L_en_US, L_lv, L_es, L_ru>>

\* _lang_matches (captions.py 125-129): the first subtags are equal
lang_base(l) == IF l = <<>> \/ l = PyNone THEN "" ELSE l[1]
lang_matches(preferred, track_lang) == lang_base(preferred) = lang_base(track_lang)

\* str.strip() of a segment is empty
IsBlank(t) == t \in {"", " "}

\* _parse_json3 (captions.py 80-103): one fragment per event that has a
\* non-blank segment; content that is no JSON gives no fragment
parse_json3(content) ==
    IF content.type # "json3" THEN <<>>
    ELSE LET parts(ev) == SelectSeq(ev.segs, LAMBDA t : ~IsBlank(t))
             kept == SelectSeq(content.events, LAMBDA ev : parts(ev) # <<>>)
         IN [k \in DOMAIN kept |-> [start |-> kept[k].tStartMs, text |-> parts(kept[k])]]

\* _parse_vtt_like (captions.py 266-285) on the lines of the content: a cue
\* line (one holding "-->", with its start time) opens a fragment whose text
\* is the following lines up to the next blank one
RECURSIVE vtt_text_end(_, _)
vtt_text_end(lines, i) ==
    IF i <= Len(lines) /\ lines[i].kind # "blank" THEN vtt_text_end(lines, i + 1) ELSE i

RECURSIVE vtt_scan(_, _)
vtt_scan(lines, i) ==
    IF i > Len(lines) THEN <<>>
    ELSE IF lines[i].kind = "cue"
    THEN LET e == vtt_text_end(lines, i + 1)
             text == [k \in 1..(e - i - 1) |-> lines[i + k].text]
         IN (IF text # <<>> THEN <<[start |-> lines[i].start, text |-> text]>> ELSE <<>>)
            \o vtt_scan(lines, e + 1)
    ELSE vtt_scan(lines, i + 1)

parse_vtt_like(content) ==
    IF content.type # "vtt" THEN <<>> ELSE vtt_scan(content.lines, 1)

\* _get_subtitle_tracks (captions.py 113-122): the dict of tracks in
\* insertion order, a manual track replacing the automatic one of its key
RECURSIVE merge_subtitles(_, _)
merge_subtitles(tracks, subs) ==
    IF subs = <<>> THEN tracks
    ELSE LET e == Head(subs)
             at == {k \in DOMAIN tracks : tracks[k].lang = e.lang}
             merged == IF e.formats = <<>> THEN tracks
                       ELSE IF at = {} THEN Append(tracks, e)
                       ELSE [k \in DOMAIN tracks |-> IF k \in at THEN e ELSE tracks[k]]
         IN merge_subtitles(merged, Tail(subs))

get_subtitle_tracks(inf) ==
    merge_subtitles(SelectSeq(inf.automatic_captions, LAMBDA e : e.formats # <<>>),
                    inf.subtitles)

\* get_video_primary_language (captions.py 137-147)
get_video_primary_language(inf) ==
    LET f == inf.formats
        with_pref(p) == {k \in DOMAIN f : f[k].language_preference = p /\ f[k].language # <<>>}
        any == {k \in DOMAIN f : f[k].language # <<>>}
        first(S) == f[CHOOSE k \in S : \A j \in S : k <= j].language
    IN IF with_pref(10) # {} THEN first(with_pref(10))
       ELSE IF with_pref(5) # {} THEN first(with_pref(5))
       ELSE IF any # {} THEN first(any)
       ELSE PyNone

\* the preferred_languages fetch_captions works with (captions.py 197-203)
effective_preferred(inf, arg) ==
    LET primary == get_video_primary_language(inf) IN
    IF primary # PyNone /\ arg = PyNone
    THEN <<primary>> \o SelectSeq(PREFERRED, LAMBDA p : ~lang_matches(primary, p))
    ELSE IF arg = PyNone THEN PREFERRED
    ELSE arg

\* pick_format (captions.py 210-223): the index of the chosen format, 0 for None
pick_format(formats) ==
    LET json3 == {k \in DOMAIN formats : formats[k].ext = "json3" /\ formats[k].url}
        text == {k \in DOMAIN formats : formats[k].url /\ formats[k].ext \in {"vtt", "srv3", "srt"}}
        least(S) == CHOOSE k \in S : \A j \in S : k <= j
    IN IF json3 # {} THEN least(json3)
       ELSE IF text # {} THEN least(text)
       ELSE IF formats # <<>> /\ formats[1].url THEN 1
       ELSE 0

\* lines 230-243 and 248-260: the fragments one track gives; none when no
\* format has a URL, when the download fails, or when nothing parses
track_captions(formats) ==
    LET k == pick_format(formats) IN
    IF k = 0 THEN <<>>
    ELSE IF formats[k].body.type = "error" THEN <<>>
    ELSE IF formats[k].ext = "json3" THEN parse_json3(formats[k].body)
    ELSE parse_vtt_like(formats[k].body)

NoCaptions == [ok |-> FALSE, captions |-> <<>>, lang |-> <<>>]

\* lines 225-244: the first preferred language whose first matching track
\* gives fragments
RECURSIVE try_preferred(_, _)
try_preferred(prefs, tracks) ==
    IF prefs = <<>> THEN NoCaptions
    ELSE LET matching == {k \in DOMAIN tracks : lang_matches(Head(prefs), tracks[k].lang)}
             key == CHOOSE k \in matching : \A j \in matching : k <= j
         IN IF matching # {} /\ track_captions(tracks[key].formats) # <<>>
            THEN [ok |-> TRUE,
                  captions |-> track_captions(tracks[key].formats),
                  lang |-> tracks[key].lang]
            ELSE try_preferred(Tail(prefs), tracks)

\* lines 246-261: the first track, in dict order, that gives fragments
RECURSIVE try_fallback(_)
try_fallback(tracks) ==
    IF tracks = <<>> THEN NoCaptions
    ELSE IF track_captions(Head(tracks).formats) # <<>>
    THEN [ok |-> TRUE,
          captions |-> track_captions(Head(tracks).formats),
          lang |-> Head(tracks).lang]
    ELSE try_fallback(Tail(tracks))

\* mutant: the fallback returns its first track whether or not it gave fragments
resolve_tracks_unchecked(inf, arg) ==
    LET tracks == get_subtitle_tracks(inf)
        p == try_preferred(effective_preferred(inf, arg), tracks)
    IN IF tracks = <<>> THEN NoCaptions
       ELSE IF p.ok THEN p
       ELSE [ok |-> TRUE,
             captions |-> track_captions(Head(tracks).formats),
             lang |-> Head(tracks).lang]

\* lines 197-263 of fetch_captions: the value returned, or NoCaptions when
\* "No captions found or accessible for this video." is raised
resolve_tracks(inf, arg) ==
    LET tracks == get_subtitle_tracks(inf)
        p == try_preferred(effective_preferred(inf, arg), tracks)
    IN IF tracks = <<>> THEN NoCaptions
       ELSE IF p.ok THEN p
       ELSE try_fallback(tracks)

(***************************************************************************)
(* What yt-dlp and the subtitle server can answer in the model.            *)
(***************************************************************************)
Line(kind, start, text) == [kind |-> kind, start |-> start, text |-> text]
Content(type, events, lines) == [type |-> type, events |-> events, lines |-> lines]
Format(ext, url, body) == [ext |-> ext, url |-> url, body |-> body]

\* the download raises
C_error == Content("error", <<>>, <<>>)
\* json3 with a blank event between two events with text
C_json_ok ==
    Content("json3",
            <<[tStartMs |-> 0, segs |-> <<"hello">>],
              [tStartMs |-> 1500, segs |-> <<" ">>],
              [tStartMs |-> 3000, segs |-> <<"big", " ", "world">>]>>,
            <<>>)
\* json3 whose events have no text
C_json_blank ==
    Content("json3",
            <<[tStartMs |-> 0, segs |-> <<" ">>], [tStartMs |-> 1000, segs |-> <<>>]>>,
            <<>>)
\* WebVTT with a cue that has no text between two cues with text
C_vtt_ok ==
    Content("vtt", <<>>,
            <<Line("text", 0, "WEBVTT"), Line("blank", 0, ""),
              Line("cue", 0, "-->"), Line("text", 0, "hello"), Line("blank", 0, ""),
              Line("cue", 2000, "-->"), Line("blank", 0, ""),
              Line("cue", 4000, "-->"), Line("text", 0, "big"), Line("text", 0, "world")>>)

\* the format lists of a track: json3 beside vtt, vtt beside a json3 entry
\* without URL, a download that fails, a track without text, no URL at all
F_json_ok == <<Format("vtt", TRUE, C_vtt_ok), Format("json3", TRUE, C_json_ok)>>
F_vtt_ok == <<Format("json3", FALSE, C_error), Format("vtt", TRUE, C_vtt_ok)>>
F_fail == <<Format("json3", TRUE, C_error)>>
F_blank == <<Format("json3", TRUE, C_json_blank)>>
F_nourl == <<Format("srv1", FALSE, C_error)>>

TrackKinds == {F_json_ok, F_vtt_ok, F_fail, F_blank}
TrackLangs == {L_en, L_en_US, L_lv, L_de}

\* automatic_captions: up to MaxTracks tracks with distinct keys
AutoCaptions ==
    UNION {{[k \in 1..n |-> [lang |-> ls[k], formats |-> fs[k]]] :
                ls \in InjSeqs(TrackLangs, n, n), fs \in [1..n -> TrackKinds]} :
           n \in 0..MaxTracks}

\* subtitles: none, a manual Latvian track, a manual German track without URL
ManualSubtitles ==
    {<<>>,
     <<[lang |-> L_lv, formats |-> F_json_ok]>>,
     <<[lang |-> L_de, formats |-> F_nourl]>>}

\* formats: no language known, Latvian as the original language, American
\* English as the only language named
VideoFormats ==
    {<<>>,
     <<[language |-> L_lv, language_preference |-> 10]>>,
     <<[language |-> <<>>, language_preference |-> 10],
       [language |-> L_en_US, language_preference |-> -1]>>}

NoInfo == [formats |-> <<>>, automatic_captions |-> <<>>, subtitles |-> <<>>]

Infos ==
    {[formats |-> f, automatic_captions |-> a, subtitles |-> m] :
        f \in VideoFormats, a \in AutoCaptions, m \in ManualSubtitles}

\* get_transcript_text was not called
NoEnv == [direct |-> <<>>, list |-> [raises |-> TRUE, transcripts |-> <<>>],
          auto_files |-> <<>>, manual_files |-> <<>>]

\* the path mkstemp returns
CookiePath == <<"yt_cookies_1.txt">>

CapResult(r, error) ==
    [ok |-> r.ok, captions |-> r.captions, lang |-> r.lang, error |-> error]

(***************************************************************************)
(* fetch_captions, step by step.                                           *)
(***************************************************************************)
CapInit ==
    /\ cap_pc = "start"
    /\ cap_arg \in {<<>>, [k \in 1..IdLen |-> "a"]}
    /\ pref_arg \in {PyNone, <<L_lv, L_en>>}
    /\ tmp_files = {}
    /\ cookies_file = PyNone
    /\ info = NoInfo
    /\ cap_result = CapResult(NoCaptions, "")
    /\ tt_env = NoEnv

CapIdle ==
    /\ cap_pc = "idle"
    /\ cap_arg = <<>>
    /\ pref_arg = PyNone
    /\ tmp_files = {}
    /\ cookies_file = PyNone
    /\ info = NoInfo
    /\ cap_result = CapResult(NoCaptions, "")
    /\ tt_env = NoEnv

\* lines 161-166 with _get_cookies_file (52-77): YOUTUBE_COOKIES_B64 is unset,
\* is no base64 text, or decodes; the write to the file made by mkstemp
\* succeeds or raises
FetchCaptionsBegin ==
    /\ cap_pc = "start"
    /\ IF normalize_url(cap_arg) = <<>>
       THEN /\ cap_pc' = "raised"
            /\ cap_result' = CapResult(NoCaptions, "No YouTube URL or video ID provided.")
            /\ UNCHANGED <<tmp_files, cookies_file>>
       ELSE /\ cap_pc' = "cookies"
            /\ UNCHANGED cap_result
            /\ \E env \in {"unset", "not_base64", "decodes"}, write_ok \in BOOLEAN :
                IF env = "decodes"
                THEN /\ tmp_files' = tmp_files \cup {CookiePath}
                     /\ cookies_file' = IF write_ok THEN CookiePath ELSE PyNone
                ELSE /\ cookies_file' = PyNone
                     /\ UNCHANGED tmp_files
    /\ UNCHANGED <<cap_arg, pref_arg, info, tt_env>>

\* lines 180-195: extract_info raises, returns nothing, or returns the info
\* dict; the finally clause removes the file cookies_file names
ExtractInfo ==
    /\ cap_pc = "cookies"
    /\ tmp_files' = IF cookies_file # PyNone THEN tmp_files \ {cookies_file} ELSE tmp_files
    /\ \E outcome \in {"raises", "none", "info"} :
        \/ /\ outcome = "raises"
           /\ cap_pc' = "raised"
           /\ cap_result' = CapResult(NoCaptions, "yt-dlp failed")
           /\ UNCHANGED info
        \/ /\ outcome = "none"
           /\ cap_pc' = "raised"
           /\ cap_result' = CapResult(NoCaptions, "No video info returned.")
           /\ UNCHANGED info
        \/ /\ outcome = "info"
           /\ cap_pc' = "info"
           /\ info' \in Infos
           /\ UNCHANGED cap_result
    /\ UNCHANGED <<cap_arg, pref_arg, cookies_file, tt_env>>

\* lines 197-263
ResolveTracks ==
    /\ cap_pc = "info"
    /\ LET r == resolve_tracks(info, pref_arg) IN
       IF r.ok
       THEN cap_pc' = "returned" /\ cap_result' = CapResult(r, "")
       ELSE /\ cap_pc' = "raised"
            /\ cap_result' = CapResult(r, "No captions found or accessible for this video.")
    /\ UNCHANGED <<cap_arg, pref_arg, tmp_files, cookies_file, info, tt_env>>

FetchCaptionsEnded == cap_pc \in {"returned", "raised"}

(***************************************************************************)
(* get_transcript_text (utils_youtube.py 24-92).  The environment answers  *)
(* api.fetch for each preferred language, api.list, each transcript's      *)
(* fetch, and gives the .vtt files the two yt-dlp runs leave behind.       *)
(***************************************************************************)
\* PREFERRED (utils_youtube.py 5)
UTILS_PREFERRED == <<L_lv, L_en, L_en_US, L_ru, L_es>>

Data(raises, texts) == [raises |-> raises, texts |-> texts]
D_raise == Data(TRUE, <<>>)
D_blank == Data(FALSE, <<"", " ">>)
D_ok == Data(FALSE, <<"", "hello", " ", "world">>)
DataOutcomes == {D_raise, D_blank, D_ok}

\* " ".join(x["text"] for x in data if x.get("text")), as the joined pieces
joined_text(data) == SelectSeq(data.texts, LAMBDA t : t # "")
\* text.strip() is not empty
NonBlankText(text) == \E k \in DOMAIN text : ~IsBlank(text[k])

\* _vtt_to_text (utils_youtube.py 14-22)
vtt_to_text(lines) ==
    LET kept == SelectSeq(lines, LAMBDA l : /\ l.kind = "text"
                                           /\ ~IsBlank(l.text)
                                           /\ l.text # "WEBVTT"
                                           /\ l.text \notin Digits)
    IN [k \in DOMAIN kept |-> kept[k].text]

V_ok == C_vtt_ok.lines
V_blank == <<Line("text", 0, "WEBVTT"), Line("blank", 0, ""), Line("text", 0, "1"),
             Line("cue", 0, "-->"), Line("blank", 0, "")>>
VttFileLists == {<<>>, <<V_blank, V_ok>>, <<V_ok>>}

TranscriptLists ==
    {[raises |-> TRUE, transcripts |-> <<>>]}
    \cup UNION {{[raises |-> FALSE,
                  transcripts |-> [k \in 1..n |-> [language_code |-> ls[k], data |-> ds[k]]]] :
                    ls \in InjSeqs({L_lv, L_de}, n, n), ds \in [1..n -> DataOutcomes]} :
                 n \in 0..2}

TranscriptEnvs(preferred) ==
    {[direct |-> d, list |-> l, auto_files |-> a, manual_files |-> m] :
        d \in [DOMAIN preferred -> DataOutcomes],
        l \in TranscriptLists,
        a \in VttFileLists, m \in VttFileLists}

TextResult(text, lang) == [ok |-> TRUE, captions |-> text, lang |-> lang, error |-> ""]
TextError(error) == [ok |-> FALSE, captions |-> <<>>, lang |-> <<>>, error |-> error]

\* lines 33-41: the first preferred language whose direct fetch gives text
RECURSIVE tt_direct(_, _, _)
tt_direct(preferred, env, k) ==
    IF k > Len(preferred) THEN TextError("")
    ELSE IF ~env.direct[k].raises /\ NonBlankText(joined_text(env.direct[k]))
    THEN TextResult(joined_text(env.direct[k]), preferred[k])
    ELSE tt_direct(preferred, env, k + 1)

\* lines 46-54: the first preferred language found in the list whose fetch gives text
RECURSIVE tt_listed(_, _, _)
tt_listed(preferred, env, k) ==
    IF k > Len(preferred) THEN TextError("")
    ELSE LET tl == env.list.transcripts
             found == {j \in DOMAIN tl : tl[j].language_code = preferred[k]}
             tr == tl[CHOOSE j \in found : \A x \in found : j <= x]
         IN IF found # {} /\ ~tr.data.raises /\ NonBlankText(joined_text(tr.data))
            THEN TextResult(joined_text(tr.data), preferred[k])
            ELSE tt_listed(preferred, env, k + 1)

\* lines 55-62: the first listed transcript whose fetch gives text
RECURSIVE tt_any(_, _)
tt_any(env, j) ==
    IF j > Len(env.list.transcripts) THEN TextError("")
    ELSE LET tr == env.list.transcripts[j] IN
         IF ~tr.data.raises /\ NonBlankText(joined_text(tr.data))
         THEN TextResult(joined_text(tr.data), tr.language_code)
         ELSE tt_any(env, j + 1)

\* lines 68-92: the first .vtt file of the automatic run, else of the manual run
tt_ytdlp(env) ==
    LET files == IF env.auto_files # <<>> THEN env.auto_files ELSE env.manual_files IN
    IF files = <<>> THEN TextError("No captions available (API/yt-dlp)")
    ELSE IF ~NonBlankText(vtt_to_text(files[1])) THEN TextError("Empty captions")
    ELSE TextResult(vtt_to_text(files[1]), <<"auto">>)

get_transcript_text(video_url_or_id, preferred, env) ==
    LET v == IF Contains(video_url_or_id, S_youtu)
             THEN utils_extract_video_id(video_url_or_id)
             ELSE video_url_or_id
    IN IF ~Truthy(v) THEN TextError("Invalid YouTube URL/ID")
       ELSE IF tt_direct(preferred, env, 1).ok THEN tt_direct(preferred, env, 1)
       ELSE IF ~env.list.raises /\ tt_listed(preferred, env, 1).ok THEN tt_listed(preferred, env, 1)
       ELSE IF ~env.list.raises /\ tt_any(env, 1).ok THEN tt_any(env, 1)
       ELSE tt_ytdlp(env)

\* a call of get_transcript_text with the module's or the caller's preferred list
GetTranscriptText ==
    /\ cap_pc = "start"
    /\ LET preferred == IF pref_arg = PyNone THEN UTILS_PREFERRED ELSE pref_arg IN
       \E env \in TranscriptEnvs(preferred) :
          /\ tt_env' = env
          /\ cap_result' = get_transcript_text(cap_arg, preferred, env)
          /\ cap_pc' = IF cap_result'.ok THEN "tt_returned" ELSE "tt_raised"
    /\ UNCHANGED <<cap_arg, pref_arg, tmp_files, cookies_file, info>>

\* the tracks fetch_captions chooses among, and whether one gives fragments
AvailableTracks == get_subtitle_tracks(info)
Yields(track) == track_captions(track.formats) # <<>>
LangYields(l) ==
    \E k \in DOMAIN AvailableTracks :
        lang_matches(l, AvailableTracks[k].lang) /\ Yields(AvailableTracks[k])

\* C4: language priority of fetch_captions. The returned track matches (as the
\* same language or a dialect variant) the earliest language of the preferred
\* list for which some available track gives a non-empty fragment list; a
\* track of a later or of no preferred language is returned only when no
\* track of an earlier preferred language gives fragments.
C4_LanguagePriority ==
    cap_pc = "returned" =>
        LET prefs == effective_preferred(info, pref_arg)
            good == {i \in DOMAIN prefs : LangYields(prefs[i])}
            first == CHOOSE i \in good : \A j \in good : i <= j
        IN good # {} => lang_matches(prefs[first], cap_result.lang)

\* a transcript that is not empty: at least one fragment, none without text
NonEmptyFragments(captions) ==
    /\ captions # <<>>
    /\ \A k \in DOMAIN captions : captions[k].text # <<>> /\ NonBlankText(captions[k].text)

\* no track of the video gives a fragment (no track at all included)
NoTrackYields ==
    \A k \in DOMAIN AvailableTracks : ~Yields(AvailableTracks[k])

\* no source of get_transcript_text gives text
NoSourceYields ==
    /\ \A k \in DOMAIN tt_env.direct :
            tt_env.direct[k].raises \/ ~NonBlankText(joined_text(tt_env.direct[k]))
    /\ \/ tt_env.list.raises
       \/ \A j \in DOMAIN tt_env.list.transcripts :
            \/ tt_env.list.transcripts[j].data.raises
            \/ ~NonBlankText(joined_text(tt_env.list.transcripts[j].data))
    /\ \A files \in {tt_env.auto_files, tt_env.manual_files} :
            \A j \in DOMAIN files : ~NonBlankText(vtt_to_text(files[j]))

\* C5: never an empty-but-successful transcript. When fetch_captions returns,
\* it returns at least one fragment, each with text, and a language code; when
\* get_transcript_text returns, it returns non-blank text and a language code;
\* when no track (no source) gives anything, the call raises.
C5_NeverEmptySuccess ==
    /\ cap_pc = "returned" =>
            /\ cap_result.ok
            /\ NonEmptyFragments(cap_result.captions)
            /\ cap_result.lang # <<>>
    /\ (cap_pc \in {"returned", "raised"} /\ NoTrackYields) =>
            /\ cap_pc = "raised"
            /\ ~cap_result.ok
            /\ cap_result.error # ""
    /\ cap_pc = "tt_returned" =>
            /\ cap_result.ok
            /\ NonBlankText(cap_result.captions)
            /\ cap_result.lang # <<>>
    /\ (cap_pc \in {"tt_returned", "tt_raised"} /\ NoSourceYields) =>
            /\ cap_pc = "tt_raised"
            /\ cap_result.error # ""

\* C5 witness: yt-dlp listed at least two tracks, none gave a fragment, and
\* fetch_captions raised
C5_Witness ==
    /\ cap_pc = "raised"
    /\ Len(AvailableTracks) >= 2
    /\ NoTrackYields
    /\ cap_result.error = "No captions found or accessible for this video."

\* C6: transient credential file. When fetch_captions has returned or raised,
\* no temporary cookie file it created exists any more.
C6_CookieFileRemoved ==
    FetchCaptionsEnded => tmp_files = {}

(***************************************************************************)
(* build_qa of app.py after the captions are fetched: chunk_by_time,       *)
(* chunk_text, the loop over chunks[:8] with one generate_questions call   *)
(* per chunk, fallback_questions, the seen list and the limit of 20.       *)
(* Text is a sequence of one-character strings; the only white space of    *)
(* the texts below is the space. Start times are whole seconds, so         *)
(* round(start, 1) of line 90 leaves them as they are.                     *)
(***************************************************************************)
\* window_sec=75 (app.py line 73), chunks[:8] (line 78), len(txt) < 60 (line 80),
\* len(qa) >= 20 (line 95), k=2 (line 84), len(s.strip()) > 12 and s[:70] (lines 49, 52)
window_sec == 75
max_windows == 8
min_chunk_len == 60
max_questions == 20
fallback_k == 2
min_sentence_len == 12
sentence_cut == 70

\* chunk_by_time(captions, window_sec, overlap_sec=0); the fragments of
\* captions.py carry start and text only, so their duration counts as 0
\* line.get("duration", 0)
frag_duration(line) == IF "duration" \in DOMAIN line THEN line.duration ELSE 0

\* chunk_by_time without lines 30-31: the fragments after the last full window are lost
RECURSIVE chunk_scan_no_tail(_, _, _, _, _)
chunk_scan_no_tail(captions, i, buf, start, window) ==
    IF i > Len(captions)
    THEN <<>>
    ELSE LET line == captions[i]
             cur_end == line.start + frag_duration(line)
         IN  IF cur_end - start >= window
             THEN << [start |-> start, lines |-> Append(buf, line)] >>
                  \o chunk_scan_no_tail(captions, i + 1, <<>>, cur_end - 0, window)
             ELSE chunk_scan_no_tail(captions, i + 1, Append(buf, line), start, window)

chunk_by_time_no_tail(captions, window) ==
    IF captions = <<>> THEN <<>>
    ELSE chunk_scan_no_tail(captions, 1, <<>>, captions[1].start, window)

\* chunk_by_time with > for the >= of line 27: a window closes one fragment late
RECURSIVE chunk_scan_late(_, _, _, _, _)
chunk_scan_late(captions, i, buf, start, window) ==
    IF i > Len(captions)
    THEN IF buf # <<>> THEN << [start |-> start, lines |-> buf] >> ELSE <<>>
    ELSE LET line == captions[i]
             cur_end == line.start + frag_duration(line)
         IN  IF cur_end - start > window
             THEN << [start |-> start, lines |-> Append(buf, line)] >>
                  \o chunk_scan_late(captions, i + 1, <<>>, cur_end - 0, window)
             ELSE chunk_scan_late(captions, i + 1, Append(buf, line), start, window)

chunk_by_time_late(captions, window) ==
    IF captions = <<>> THEN <<>>
    ELSE chunk_scan_late(captions, 1, <<>>, captions[1].start, window)

RECURSIVE chunk_scan(_, _, _, _, _)
chunk_scan(captions, i, buf, start, window) ==
    IF i > Len(captions)
    THEN IF buf # <<>> THEN << [start |-> start, lines |-> buf] >> ELSE <<>>
    ELSE LET line == captions[i]
             cur_end == line.start + frag_duration(line)
         IN  IF cur_end - start >= window
             THEN << [start |-> start, lines |-> Append(buf, line)] >>
                  \o chunk_scan(captions, i + 1, <<>>, cur_end - 0, window)
             ELSE chunk_scan(captions, i + 1, Append(buf, line), start, window)

chunk_by_time(captions, window) ==
    IF captions = <<>> THEN <<>>
    ELSE chunk_scan(captions, 1, <<>>, captions[1].start, window)

\* " ".join(x["text"] for x in chunk if x.get("text", "").strip())
RECURSIVE join_texts(_)
join_texts(texts) ==
    IF texts = <<>> THEN <<>>
    ELSE IF Len(texts) = 1 THEN texts[1]
    ELSE texts[1] \o <<" ">> \o join_texts(Tail(texts))

chunk_text(chunk) ==
    join_texts(SelectSeq([k \in 1..Len(chunk) |-> chunk[k].text],
                         LAMBDA t : Strip(t, " ") # <<>>))

\* lang_code_to_name(code): a language code is the sequence of its parts
\* ("lv-LV" is <<"lv", "LV">>), and of the codes explored here the ones that
\* start with "lv", "es" or "ru" are the ones whose first part is that
lang_code_to_name(code) ==
    LET c == IF code = PyNone \/ code = <<>> THEN "" ELSE code[1]
    IN  IF c = "lv" THEN "Latvian"
        ELSE IF c = "es" THEN "Spanish"
        ELSE IF c = "ru" THEN "Russian"
        ELSE "English"

\* re.split(r"[.!?]\s+", txt)
SentenceEnds == {".", "!", "?"}
RECURSIVE re_split_sentences(_)
re_split_sentences(txt) ==
    LET hits == {p \in 1..(Len(txt) - 1) : txt[p] \in SentenceEnds /\ txt[p + 1] = " "}
    IN  IF hits = {} THEN <<txt>>
        ELSE LET p == CHOOSE h \in hits : \A g \in hits : h <= g
             IN  <<SubSeq(txt, 1, p - 1)>>
                 \o re_split_sentences(LStrip(Drop(txt, p + 1), " "))

S_question_head == <<"W", "h", "a", "t", " ", "w", "a", "s", " ", "m", "e", "n", "t", "i", "o", "n", "e", "d", " ", "h", "e", "r", "e", ":", " ", "\"">>
S_question_tail == <<".", ".", ".", "\"">>
S_not_mentioned == <<"N", "o", "t", " ", "m", "e", "n", "t", "i", "o", "n", "e", "d">>
S_unrelated == <<"S", "o", "m", "e", "t", "h", "i", "n", "g", " ", "u", "n", "r", "e", "l", "a", "t", "e", "d">>
S_not_sure == <<"I", "'", "m", " ", "n", "o", "t", " ", "s", "u", "r", "e">>

\* fallback_questions(txt, k)
fallback_questions(txt, k) ==
    LET parts == re_split_sentences(txt)
        sents == SelectSeq([j \in 1..Len(parts) |-> Strip(parts[j], " ")],
                           LAMBDA s : Len(s) > min_sentence_len)
        picked == Take(sents, k)
    IN  [j \in 1..Len(picked) |->
            [question |-> S_question_head \o Take(picked[j], sentence_cut) \o S_question_tail,
             correct |-> picked[j],
             distractors |-> <<S_not_mentioned, S_unrelated, S_not_sure>>]]

\* generate_questions(fragment, previous_questions, language) of llm_qgen.py.
\* The answer of the model is a Response: the invocation of line 65 raises,
\* or it returns text that json.loads rejects, or a JSON array of items. An
\* invocation that raises is outside the try of lines 68-90: see BuildQAChunk.
Response(kind, items) == [kind |-> kind, items |-> items]
R_raises == Response("raises", <<>>)
R_malformed == Response("malformed", <<>>)

item_is_valid(item) ==
    /\ Strip(item.question, " ") # <<>>
    /\ Strip(item.correct, " ") # <<>>
    /\ item.distractors # <<>>

generate_questions(response) ==
    IF response.kind = "malformed" THEN <<>>
    ELSE LET valid == SelectSeq(response.items, item_is_valid)
         IN  [j \in 1..Len(valid) |->
                 [question |-> Strip(valid[j].question, " "),
                  correct |-> Strip(valid[j].correct, " "),
                  distractors |-> [d \in 1..Len(valid[j].distractors) |->
                                      Strip(valid[j].distractors[d], " ")]]]

\* ---- the transcripts and the answers of the model that are explored ----
T_cats == <<"C", "a", "t", "s", " ", "a", "r", "e", " ", "m", "a", "m", "m", "a", "l", "s", ".", " ", "D", "o", "g", "s", " ", "b", "a", "r", "k", " ", "l", "o", "u", "d", "l", "y", ".", " ", "F", "i", "s", "h", " ", "s", "w", "i", "m", " ", "f", "a", "s", "t", ".", " ", "O", "w", "l", "s", " ", "f", "l", "y">>
T_sun == <<"T", "h", "e", " ", "s", "u", "n", " ", "i", "s", " ", "a", " ", "s", "t", "a", "r", "!", " ", "I", "s", " ", "t", "h", "e", " ", "m", "o", "o", "n", " ", "m", "a", "d", "e", " ", "o", "f", " ", "r", "o", "c", "k", "?", " ", "Y", "e", "s", ".", " ", "P", "l", "a", "n", "e", "t", "s", " ", "o", "r", "b", "i", "t", " ", "t", "h", "e", " ", "s", "u", "n", ".">>
T_hello == <<"H", "e", "l", "l", "o", " ", "t", "h", "e", "r", "e", ".">>

\* seconds between the starts of two fragments of the explored transcripts
CaptionGap == 75
\* fragments of the longest explored transcript; items of the longest answer
MaxCaptions == 10
MaxItems == 10
\* the chunks up to which the model may also give a sloppy answer
MaxSloppyChunk == 2
\* the fragments up to which the pair of short fragments may begin
MaxShort == 3

\* A transcript of n fragments: those numbered short and short + 1 say
\* T_hello, the others T_cats and T_sun in turn (short = 0: none is short).
Captions(n, short) ==
    [p \in 1..n |->
        [start |-> (p - 1) * CaptionGap,
         text |-> IF short # 0 /\ p \in {short, short + 1} THEN T_hello
                  ELSE IF p % 2 = 1 THEN T_cats ELSE T_sun]]

CaptionLists == {Captions(n, short) : n \in 0..MaxCaptions, short \in 0..MaxShort}

DigitChars == <<"0", "1", "2", "3", "4", "5", "6", "7", "8", "9">>
RECURSIVE Numeral(_)
Numeral(n) ==
    IF n < 10 THEN <<DigitChars[n + 1]>>
    ELSE Numeral(n \div 10) \o <<DigitChars[(n % 10) + 1]>>

\* the j-th item the model writes for chunk i; BadItem lacks its answer
Item(i, j) ==
    [question |-> <<" ", "Q">> \o Numeral(i) \o <<".">> \o Numeral(j) \o <<"?", " ">>,
     correct |-> <<"A">> \o Numeral(i) \o <<".">> \o Numeral(j),
     distractors |-> << <<"x">>, <<"y">> >>]
BadItem ==
    [question |-> <<"Q", "?">>, correct |-> <<" ">>, distractors |-> << <<"x">> >>]

\* A sloppy answer for chunk i, all of it valid for generate_questions: a
\* question of its own, the same question again with another answer, the
\* question of Item(1, 1) with another answer, the question fallback_questions
\* makes of the first sentence of T_cats with another answer, and a question
\* whose only distractor is its correct answer.
S_cats_sentence == Take(T_cats, 16)
SloppyItems(i) ==
    << [question |-> <<" ", "R">> \o Numeral(i) \o <<"?">>,
        correct |-> <<"A">>, distractors |-> << <<"x">>, <<"y">> >>],
       [question |-> <<"R">> \o Numeral(i) \o <<"?", " ">>,
        correct |-> <<"B">>, distractors |-> << <<"x">>, <<"z">> >>],
       [question |-> Item(1, 1).question,
        correct |-> <<"B">>, distractors |-> << <<"x">>, <<"z">> >>],
       [question |-> S_question_head \o S_cats_sentence \o S_question_tail,
        correct |-> <<"B">>, distractors |-> << <<"x">>, <<"z">> >>],
       [question |-> <<"S">> \o Numeral(i) \o <<"?">>,
        correct |-> <<"A">>, distractors |-> << <<"A">> >>] >>

Responses(i) ==
    {R_raises,
     R_malformed,
     Response("json", <<>>),
     Response("json", <<BadItem>>),
     Response("json", <<Item(i, 1)>>),
     Response("json", <<BadItem, Item(i, 1)>>),
     Response("json", [j \in 1..MaxItems |-> Item(i, j)])}
    \cup (IF i <= MaxSloppyChunk THEN {Response("json", SloppyItems(i))} ELSE {})

BuildUrls == {U_watch \o [k \in 1..IdLen |-> "a"], <<"a", "b", "c">>}
FetchedCodes == {L_en, L_lv}

\* what build_qa returns: (state, message); the state is NoBuild for None
NoBuild ==
    [video_id |-> PyNone, lang_name |-> "", qa |-> <<>>, idx |-> 0, score |-> 0,
     previous_qs |-> <<>>]
BuildResult(state, message) == [state |-> state, message |-> message]
NoResult == BuildResult(NoBuild, "")

BuildIdle ==
    /\ build_pc = "idle"
    /\ build_vid = PyNone
    /\ lang_name = ""
    /\ chunks = <<>>
    /\ chunk_i = 0
    /\ qa = <<>>
    /\ seen = <<>>
    /\ previous_questions = <<>>
    /\ gen_log = <<>>
    /\ build_result = NoResult

BuildInit == BuildIdle

\* chunks[:8] replaced by the whole list
window_chunks_all(all_chunks) == all_chunks
\* chunks[:8] of line 78
window_chunks(all_chunks) == Take(all_chunks, max_windows)

\* the test of line 95 never true
limit_reached_never(list) == FALSE
\* the test of line 95: the loop is left
limit_reached(list) == Len(list) >= max_questions

\* the test of line 80: the chunk is passed over
too_short(txt) == txt = <<>> \/ Len(txt) < min_chunk_len

\* lines 85-92 without the test "q in seen"
RECURSIVE add_items_no_seen(_, _, _, _)
add_items_no_seen(items, start, acc_qa, acc_seen) ==
    IF items = <<>> THEN [qa |-> acc_qa, seen |-> acc_seen]
    ELSE LET it == Head(items)
             q == Strip(it.question, " ")
         IN  IF q = <<>>
             THEN add_items_no_seen(Tail(items), start, acc_qa, acc_seen)
             ELSE add_items_no_seen(Tail(items), start,
                            Append(acc_qa, [start |-> start, q |-> q, a |-> it.correct,
                                            choices |-> <<it.correct>> \o it.distractors]),
                            Append(acc_seen, q))

\* lines 85-92: the items of one chunk are added to qa unless seen before
RECURSIVE add_items(_, _, _, _)
add_items(items, start, acc_qa, acc_seen) ==
    IF items = <<>> THEN [qa |-> acc_qa, seen |-> acc_seen]
    ELSE LET it == Head(items)
             q == Strip(it.question, " ")
         IN  IF q = <<>> \/ \E k \in 1..Len(acc_seen) : acc_seen[k] = q
             THEN add_items(Tail(items), start, acc_qa, acc_seen)
             ELSE add_items(Tail(items), start,
                            Append(acc_qa, [start |-> start, q |-> q, a |-> it.correct,
                                            choices |-> <<it.correct>> \o it.distractors]),
                            Append(acc_seen, q))

\* build_qa, lines 60-76: the id, the captions, the language and the chunks
BuildQABegin ==
    /\ build_pc = "idle"
    /\ \E url \in BuildUrls, fetched \in {"raises", "captions"},
          caps \in CaptionLists, code \in FetchedCodes :
        LET id == extract_video_id(url)
        IN  /\ build_vid' = id
            /\ IF ~Truthy(id)
               THEN /\ build_result' = BuildResult(NoBuild, "Invalid YouTube URL.")
                    /\ build_pc' = "returned"
                    /\ UNCHANGED <<lang_name, chunks, chunk_i>>
               ELSE IF fetched = "raises"
               THEN /\ build_result' = BuildResult(NoBuild, "Could not fetch captions")
                    /\ build_pc' = "returned"
                    /\ UNCHANGED <<lang_name, chunks, chunk_i>>
               ELSE IF caps = <<>>
               THEN /\ build_result' = BuildResult(NoBuild, "No captions found.")
                    /\ build_pc' = "returned"
                    /\ UNCHANGED <<lang_name, chunks, chunk_i>>
               ELSE /\ lang_name' = lang_code_to_name(code)
                    /\ chunks' = chunk_by_time(caps, window_sec)
                    /\ chunk_i' = 1
                    /\ build_pc' = "loop"
                    /\ UNCHANGED build_result
    /\ UNCHANGED <<qa, seen, previous_questions, gen_log>>

\* one turn of the loop of lines 78-96 on chunk chunk_i
BuildQAChunk ==
    /\ build_pc = "loop"
    /\ LET window == window_chunks(chunks)
           ch == chunks[chunk_i]
           txt == chunk_text(ch.lines)
           last == chunk_i >= Len(window)
           fallback == fallback_questions(txt, fallback_k)
       IN  IF too_short(txt)
           THEN /\ build_pc' = IF last THEN "end" ELSE "loop"
                /\ chunk_i' = chunk_i + 1
                /\ UNCHANGED <<qa, seen, previous_questions, gen_log>>
           ELSE \E response \in Responses(chunk_i) :
                IF response.kind = "raises"
                THEN \* line 82 is not in a try: the exception leaves build_qa
                     /\ build_pc' = "raised"
                     /\ gen_log' = Append(gen_log, [chunk |-> chunk_i, outcome |-> "raised",
                                                    fallback |-> FALSE, items |-> <<>>])
                     /\ UNCHANGED <<chunk_i, qa, seen, previous_questions>>
                ELSE LET generated == generate_questions(response)
                         items == IF generated = <<>> THEN fallback ELSE generated
                         added == add_items(items, ch.start, qa, seen)
                     IN  /\ qa' = added.qa
                         /\ seen' = added.seen
                         /\ previous_questions' =
                                previous_questions \o SubSeq(added.seen, Len(seen) + 1, Len(added.seen))
                         /\ gen_log' = Append(gen_log,
                                [chunk |-> chunk_i,
                                 outcome |-> IF generated = <<>> THEN "unusable" ELSE "items",
                                 fallback |-> generated = <<>>,
                                 items |-> items])
                         /\ chunk_i' = chunk_i + 1
                         /\ build_pc' = IF last \/ limit_reached(added.qa)
                                        THEN "end" ELSE "loop"
    /\ UNCHANGED <<build_vid, lang_name, chunks, build_result>>

\* lines 98-102: the return after the loop
BuildQAEnd ==
    /\ build_pc = "end"
    /\ build_result' =
          IF qa = <<>>
          THEN BuildResult(NoBuild, "Couldn't generate any questions from this transcript.")
          ELSE BuildResult([video_id |-> build_vid, lang_name |-> lang_name, qa |-> qa,
                            idx |-> 0, score |-> 0, previous_qs |-> previous_questions],
                           "Loaded questions.")
    /\ build_pc' = "returned"
    /\ UNCHANGED <<build_vid, lang_name, chunks, chunk_i, qa, seen, previous_questions, gen_log>>

\* ---- what the claims on build_qa speak of ----
\* the chunks generate_questions was invoked for, in the order of the calls
Called == [k \in 1..Len(gen_log) |-> gen_log[k].chunk]

\* the numbers of the chunks among the first n whose text has the minimum length
Qualifying(n) ==
    SelectSeq([k \in 1..Min(n, Len(chunks)) |-> k],
              LAMBDA k : ~too_short(chunk_text(chunks[k].lines)))

IsPrefix(s, t) == Len(s) <= Len(t) /\ SubSeq(t, 1, Len(s)) = s

\* the loop has come to its end without the limit of 20 questions being reached
LoopRanOut == build_pc \in {"end", "returned"} /\ Len(qa) < max_questions

\* C9: every generation call that fails (it raises, or it returns nothing
\* usable) is followed by fallback_questions on its chunk and the build goes
\* on; no failure leaves build_qa as an exception.
C9_FailureFallsBack ==
    /\ build_pc # "raised"
    /\ \A k \in 1..Len(gen_log) : gen_log[k].outcome # "items" => gen_log[k].fallback

\* C10 as stated: the calls are made, in order, for the first 8 qualifying
\* chunks of the whole transcript and for no other chunk (all 8, or all there
\* are, when the limit does not end the build): short chunks do not count.
C10_FirstEightQualifying ==
    /\ IsPrefix(Called, Take(Qualifying(Len(chunks)), max_windows))
    /\ LoopRanOut => Called = Take(Qualifying(Len(chunks)), max_windows)

\* C10 amended: the calls are made, in order, only for the qualifying chunks
\* among the first 8 chunks of the transcript, and for every one of them when
\* the loop runs to its end without the limit being reached: a short chunk
\* among the first 8 is passed over and still counts toward the 8.
C10_FirstEightChunks ==
    /\ IsPrefix(Called, Qualifying(max_windows))
    /\ LoopRanOut => Called = Qualifying(max_windows)

\* a build that returned a quiz from a transcript with 8 qualifying chunks, of
\* which fewer than 8 were handed to the generation
C10_Witness ==
    /\ build_pc = "returned"
    /\ build_result.state # NoBuild
    /\ Len(qa) < max_questions
    /\ Len(Qualifying(Len(chunks))) >= max_windows
    /\ Len(Called) < max_windows
    /\ Len(Called) > 0

\* the entry build_qa makes of an item produced for the chunk that starts at start
Entry(it, start) ==
    [start |-> start, q |-> Strip(it.question, " "), a |-> it.correct,
     choices |-> <<it.correct>> \o it.distractors]

\* every item produced so far, by generate_questions or by fallback_questions,
\* in the order of production, as the entry it would make
RECURSIVE ProducedUpTo(_)
ProducedUpTo(k) ==
    IF k = 0 THEN <<>>
    ELSE ProducedUpTo(k - 1)
         \o [j \in 1..Len(gen_log[k].items) |->
                Entry(gen_log[k].items[j], chunks[gen_log[k].chunk].start)]
Produced == ProducedUpTo(Len(gen_log))

\* the entries of s whose question string occurs nowhere before them in s
FirstOccurrences(s) ==
    LET list == s
    IN  SelectSeq([k \in 1..Len(list) |-> [at |-> k, e |-> list[k]]],
                  LAMBDA x : \A j \in 1..(x.at - 1) : list[j].q # x.e.q)

DistinctQuestions(list) ==
    \A i, j \in 1..Len(list) : i # j => list[i].q # list[j].q

\* C11: no two entries of the question list have the same question string,
\* whether the repeats come from different chunks, from one chunk's items or
\* from the model and the fallback; of the entries produced with one question
\* string the list keeps the first, with its timestamp, answer and choices,
\* and no other; a returned state carries that list.
C11_FirstOccurrenceKept ==
    /\ DistinctQuestions(qa)
    /\ LET first == FirstOccurrences(Produced)
       IN  qa = [k \in 1..Len(first) |-> first[k].e]
    /\ (build_pc = "returned" /\ build_result.state # NoBuild) => build_result.state.qa = qa

\* a returned quiz for which one answer of the model repeated a question of
\* its own, an answer repeated a question of an earlier chunk, and the model
\* and the fallback produced the same question, each time with another answer
C11_Witness ==
    /\ build_pc = "returned"
    /\ build_result.state # NoBuild
    /\ \E k \in 1..Len(gen_log) : \E i, j \in 1..Len(gen_log[k].items) :
            /\ i < j
            /\ Strip(gen_log[k].items[i].question, " ") = Strip(gen_log[k].items[j].question, " ")
            /\ gen_log[k].items[i].correct # gen_log[k].items[j].correct
    /\ \E k, l \in 1..Len(gen_log) :
            /\ k < l
            /\ gen_log[k].fallback # gen_log[l].fallback
            /\ \E i \in 1..Len(gen_log[k].items), j \in 1..Len(gen_log[l].items) :
                    /\ gen_log[k].items[i].question = gen_log[l].items[j].question
                    /\ gen_log[k].items[i].correct # gen_log[l].items[j].correct
    /\ \E k, l \in 1..Len(gen_log) :
            /\ k < l
            /\ ~gen_log[k].fallback /\ ~gen_log[l].fallback
            /\ \E i \in 1..Len(gen_log[k].items), j \in 1..Len(gen_log[l].items) :
                    /\ gen_log[k].items[i].question = gen_log[l].items[j].question
                    /\ gen_log[k].items[i].correct # gen_log[l].items[j].correct

\* C12 as stated: no chunk is accepted once 20 questions are reached, and the
\* question list of a returned state has at most 20 entries.
C12_AtMostTwenty ==
    /\ build_pc = "loop" => Len(qa) < max_questions
    /\ (build_pc = "returned" /\ build_result.state # NoBuild) =>
            Len(build_result.state.qa) <= max_questions

\* C12 amended: no chunk is accepted once 20 questions are reached, the limit
\* being tested after all items of a chunk are added: the list had fewer than
\* 20 entries before the items of the last call, so it has at most 19 entries
\* more than that call produced, and a returned state carries that list.
C12_StopsAtTwenty ==
    /\ build_pc = "loop" => Len(qa) < max_questions
    /\ Len(qa) >= max_questions =>
            /\ gen_log # <<>>
            /\ Len(qa) <= (max_questions - 1) + Len(gen_log[Len(gen_log)].items)
    /\ (build_pc = "returned" /\ build_result.state # NoBuild) => build_result.state.qa = qa

\* a returned quiz of more than 20 questions, built from fewer than 8 calls
C12_Witness ==
    /\ build_pc = "returned"
    /\ build_result.state # NoBuild
    /\ Len(build_result.state.qa) > max_questions
    /\ Len(gen_log) < Len(Qualifying(max_windows))

\* C13: every question of a state build_qa returns has at least 3 choices, its
\* correct answer is the first of them and occurs among them once only.
C13_ChoicesWellFormed ==
    (build_pc = "returned" /\ build_result.state # NoBuild) =>
        \A k \in 1..Len(build_result.state.qa) :
            LET e == build_result.state.qa[k] IN
            /\ Len(e.choices) >= 3
            /\ e.choices[1] = e.a
            /\ Cardinality({c \in 1..Len(e.choices) : e.choices[c] = e.a}) = 1

(***************************************************************************)
(* chunk_by_time on its own: the fragment lists it is called with and the  *)
(* call.  Times are whole seconds on a grid of a third of a window.        *)
(***************************************************************************)
Tick == window_sec \div 3
\* fragments of the longest explored list
MaxFrags == 5

\* the step from the start of a fragment to the start of the next (one step
\* goes back: the list need not be in time order), and the durations a
\* fragment can carry (NoDuration: it has no duration key)
FragGaps == {0 - Tick, 0, 3 * Tick, 4 * Tick}
NoDuration == 0 - 1
FragDurations == {NoDuration, 3 * Tick}

Fragment(start, dur) ==
    IF dur = NoDuration THEN [start |-> start] ELSE [start |-> start, duration |-> dur]

RECURSIVE StartsOf(_)
StartsOf(gaps) ==
    IF gaps = <<>> THEN <<0>>
    ELSE LET before == StartsOf(SubSeq(gaps, 1, Len(gaps) - 1))
             next == before[Len(before)] + gaps[Len(gaps)]
         IN  Append(before, IF next < 0 THEN 0 ELSE next)

\* the lists of n fragments
FragmentLists(n) ==
    {[k \in 1..n |-> Fragment(StartsOf(g)[k], d[k])] :
        g \in [1..(n - 1) -> FragGaps], d \in [1..n -> FragDurations]}

ChunkIdle ==
    /\ chunk_pc = "idle"
    /\ frags = <<>>
    /\ windows = <<>>

ChunkInit ==
    /\ chunk_pc = "start"
    /\ \E n \in 1..MaxFrags : frags \in FragmentLists(n)
    /\ windows = <<>>

\* chunks = chunk_by_time(caps, window_sec=75), as build_qa calls it (line 73)
ChunkByTime ==
    /\ chunk_pc = "start"
    /\ windows' = chunk_by_time(frags, window_sec)
    /\ chunk_pc' = "returned"
    /\ UNCHANGED frags

\* ---- what the claims on chunk_by_time speak of ----
RECURSIVE Concat(_)
Concat(ws) == IF ws = <<>> THEN <<>> ELSE ws[1].lines \o Concat(Tail(ws))

FragEnd(line) == line.start + frag_duration(line)
\* the covered duration of window w up to its k-th fragment
Covered(w, k) == FragEnd(w.lines[k]) - w.start
IsFull(w) == Covered(w, Len(w.lines)) >= window_sec

\* C14: the fragment lists of the returned windows, concatenated in order, are
\* the input list; no window is empty; the starts of the windows do not
\* decrease; every window but the last covers at least window_sec.
C14_WindowsPartitionInput ==
    chunk_pc = "returned" =>
        /\ Concat(windows) = frags
        /\ \A k \in 1..Len(windows) : windows[k].lines # <<>>
        /\ \A k \in 1..(Len(windows) - 1) : windows[k].start <= windows[k + 1].start
        /\ \A k \in 1..(Len(windows) - 1) : IsFull(windows[k])

\* a list with a step back in time, cut into three windows or more, the last
\* of them partial
C14_Witness ==
    /\ chunk_pc = "returned"
    /\ Len(windows) >= 3
    /\ ~IsFull(windows[Len(windows)])
    /\ \E k \in 1..(Len(frags) - 1) : frags[k + 1].start < frags[k].start

InTimeOrder(list) == \A k \in 1..(Len(list) - 1) : list[k].start <= list[k + 1].start
\* from the start of the first fragment to the latest end of a fragment
Span(list) ==
    (CHOOSE e \in {FragEnd(list[k]) : k \in 1..Len(list)} :
        \A k \in 1..Len(list) : FragEnd(list[k]) <= e) - list[1].start
SpansFourWindows == InTimeOrder(frags) /\ Span(frags) = 4 * window_sec

\* every window but the last covers window_sec, and no window goes on after
\* the fragment with which its covered duration reaches window_sec
ClosesWhenFull ==
    /\ \A k \in 1..(Len(windows) - 1) : IsFull(windows[k])
    /\ \A k \in 1..Len(windows) : \A j \in 1..(Len(windows[k].lines) - 1) :
            Covered(windows[k], j) < window_sec

\* C15 as stated: a transcript spanning 300 seconds is cut into exactly 4
\* windows; every window but the last covers at least 75 seconds, a window
\* closing as soon as it does.
C15_ExactlyFourWindows ==
    (chunk_pc = "returned" /\ SpansFourWindows) =>
        /\ Len(windows) = 4
        /\ ClosesWhenFull

\* C15 amended: a transcript spanning 300 seconds is cut into 1 to 5 windows,
\* at most 4 of them covering 75 seconds; every window but the last covers at
\* least 75 seconds, a window closing as soon as it does.
C15_AtMostFourFullWindows ==
    (chunk_pc = "returned" /\ SpansFourWindows) =>
        /\ Len(windows) >= 1
        /\ Len(windows) <= 5
        /\ Cardinality({k \in 1..Len(windows) : IsFull(windows[k])}) <= 4
        /\ ClosesWhenFull

\* a transcript spanning 300 seconds cut into 5 windows
C15_Witness ==
    /\ chunk_pc = "returned"
    /\ SpansFourWindows
    /\ Len(windows) = 5

(***************************************************************************)
(* The single-call strategy: generate_quiz_from_transcript and             *)
(* _parse_timestamp of llm_simple.py.  A timestamp of the JSON answer is a  *)
(* number, a string or null; the numbers and the numerals explored are     *)
(* whole, so int() and float() give the same value here.                   *)
(***************************************************************************)
TsNum(n) == [kind |-> "num", num |-> n, str |-> <<>>]
TsStr(t) == [kind |-> "str", num |-> 0, str |-> t]
TsNull == [kind |-> "null", num |-> 0, str |-> <<>>]

DigitValue(c) == CHOOSE v \in 0..9 : DigitChars[v + 1] = c
RECURSIVE DigitsValue(_)
DigitsValue(t) ==
    IF t = <<>> THEN 0
    ELSE 10 * DigitsValue(SubSeq(t, 1, Len(t) - 1)) + DigitValue(t[Len(t)])

\* int(t) and, for the numerals explored, float(t): white space around, a
\* sign, digits; anything else raises ValueError (ok is FALSE)
parse_number(t) ==
    LET u == Strip(t, " ")
        signed == u # <<>> /\ u[1] \in {"+", "-"}
        body == IF signed THEN Tail(u) ELSE u
    IN  IF body # <<>> /\ \A k \in 1..Len(body) : body[k] \in Digits
        THEN [ok |-> TRUE,
              val |-> IF signed /\ u[1] = "-" THEN 0 - DigitsValue(body) ELSE DigitsValue(body)]
        ELSE [ok |-> FALSE, val |-> 0]

\* _parse_timestamp(ts) (lines 114-125): any exception gives 0
parse_timestamp(ts) ==
    LET parts == Split(SelectSeq(ts, LAMBDA c : c \notin {"[", "]"}), ":")
        nums == [k \in 1..Len(parts) |-> parse_number(parts[k])]
        all_ok == \A k \in 1..Len(parts) : nums[k].ok
        whole == parse_number(ts)
    IN  IF Contains(ts, <<":">>) /\ Len(parts) = 2
        THEN IF all_ok THEN nums[1].val * 60 + nums[2].val ELSE 0
        ELSE IF Contains(ts, <<":">>) /\ Len(parts) = 3
        THEN IF all_ok THEN nums[1].val * 3600 + nums[2].val * 60 + nums[3].val ELSE 0
        ELSE IF whole.ok THEN whole.val ELSE 0

\* lines 84-86: the distractors that are non-blank strings, stripped
kept_distractors(item) ==
    LET stripped == [d \in 1..Len(item.distractors) |-> Strip(item.distractors[d], " ")]
    IN  SelectSeq(stripped, LAMBDA d : d # <<>>)

\* line 93
simple_item_passes(item) ==
    /\ Strip(item.question, " ") # <<>>
    /\ Strip(item.correct, " ") # <<>>
    /\ Len(kept_distractors(item)) >= 2

\* lines 87-91 and float(timestamp) of line 98: float(None) raises TypeError
simple_timestamp(item) ==
    IF item.timestamp.kind = "str" THEN [ok |-> TRUE, val |-> parse_timestamp(item.timestamp.str)]
    ELSE IF item.timestamp.kind = "num" THEN [ok |-> TRUE, val |-> item.timestamp.num]
    ELSE [ok |-> FALSE, val |-> 0]

\* lines 94-99
simple_question(item) ==
    [question |-> Strip(item.question, " "),
     correct |-> Strip(item.correct, " "),
     distractors |-> Take(kept_distractors(item), 3),
     timestamp |-> simple_timestamp(item).val]

\* questions.sort(key=lambda x: x["timestamp"]): a stable sort
RECURSIVE sort_by_timestamp(_)
sort_by_timestamp(list) ==
    IF list = <<>> THEN <<>>
    ELSE LET x == list[Len(list)]
             before == sort_by_timestamp(SubSeq(list, 1, Len(list) - 1))
             n == Cardinality({k \in 1..Len(before) : before[k].timestamp <= x.timestamp})
         IN  SubSeq(before, 1, n) \o <<x>> \o SubSeq(before, n + 1, Len(before))

\* generate_quiz_from_transcript for a transcript that is not blank, from the
\* answer of the generation call on: the try of lines 53-111 returns [] for a
\* call that raises, for text json.loads rejects and for any exception raised
\* while the items are read
generate_quiz_from_transcript(response) ==
    IF response.kind # "json" THEN <<>>
    ELSE LET passing == SelectSeq(response.items, simple_item_passes)
         IN  IF \E k \in 1..Len(passing) : ~simple_timestamp(passing[k]).ok
             THEN <<>>
             ELSE sort_by_timestamp([k \in 1..Len(passing) |-> simple_question(passing[k])])

\* ---- the answers of the generation call that are explored ----
\* items of the longest explored answer
MaxSimpleItems == 3

SimpleItem(name, correct, distractors, timestamp) ==
    [question |-> name, correct |-> correct, distractors |-> distractors,
     timestamp |-> timestamp]

D_two == << <<"x">>, <<" ", "y">> >>
SimpleItems ==
    {SimpleItem(<<"n", "9", "0">>, <<"A">>, D_two, TsNum(90)),
     SimpleItem(<<" ", "n", "1", "0">>, <<"A">>, D_two, TsNum(10)),
     SimpleItem(<<"s", "1", ":", "3", "0">>, <<"A">>, D_two, TsStr(<<"[", "1", ":", "3", "0", "]">>)),
     SimpleItem(<<"s", "4", "5">>, <<"A">>, <<<<"x">>, <<"y">>, <<"z">>, <<"w">>>>, TsStr(<<"4", "5">>)),
     SimpleItem(<<"s", "a", "b", "c">>, <<"A">>, D_two, TsStr(<<"a", "b", "c">>)),
     SimpleItem(<<"s", "-", "5">>, <<"A">>, D_two, TsStr(<<"-", "5">>)),
     SimpleItem(<<"n", "u", "l", "l">>, <<"A">>, D_two, TsNull),
     SimpleItem(<<" ">>, <<"A">>, D_two, TsNum(20)),
     SimpleItem(<<"o", "n", "e">>, <<"A">>, << <<"x">>, <<" ">> >>, TsNum(30))}

SimpleResponses ==
    {R_raises, R_malformed}
    \cup {Response("json", items) :
            items \in UNION {[1..n -> SimpleItems] : n \in 0..MaxSimpleItems}}

SimpleIdle ==
    /\ simple_pc = "idle"
    /\ simple_response = R_malformed
    /\ simple_questions = <<>>

SimpleInit ==
    /\ simple_pc = "start"
    /\ simple_response \in SimpleResponses
    /\ simple_questions = <<>>

GenerateQuizFromTranscript ==
    /\ simple_pc = "start"
    /\ simple_questions' = generate_quiz_from_transcript(simple_response)
    /\ simple_pc' = "returned"
    /\ UNCHANGED simple_response

\* ---- what the claim on the single-call strategy speaks of ----
\* the timestamp of an item read as the claim reads it: a number, or a string
\* that int() or float() accepts, alone or as minutes:seconds or
\* hours:minutes:seconds; ok is FALSE for anything else
ReadTimestamp(ts) ==
    IF ts.kind = "num" THEN [ok |-> TRUE, val |-> ts.num]
    ELSE IF ts.kind = "null" THEN [ok |-> FALSE, val |-> 0]
    ELSE LET parts == Split(SelectSeq(ts.str, LAMBDA c : c \notin {"[", "]"}), ":")
             nums == [k \in 1..Len(parts) |-> parse_number(parts[k])]
         IN  IF Len(parts) > 3 \/ \E k \in 1..Len(parts) : ~nums[k].ok
             THEN [ok |-> FALSE, val |-> 0]
             ELSE IF Len(parts) = 1 THEN [ok |-> parse_number(ts.str).ok, val |-> parse_number(ts.str).val]
             ELSE IF Len(parts) = 2 THEN [ok |-> TRUE, val |-> nums[1].val * 60 + nums[2].val]
             ELSE [ok |-> TRUE, val |-> nums[1].val * 3600 + nums[2].val * 60 + nums[3].val]

PassesValidation(item) ==
    /\ Strip(item.question, " ") # <<>>
    /\ Strip(item.correct, " ") # <<>>
    /\ Cardinality({d \in 1..Len(item.distractors) : Strip(item.distractors[d], " ") # <<>>}) >= 2
    /\ ReadTimestamp(item.timestamp).ok
    /\ ReadTimestamp(item.timestamp).val >= 0

IsSortedByTimestamp(list) ==
    \A k \in 1..(Len(list) - 1) : list[k].timestamp <= list[k + 1].timestamp

\* C16: the returned questions are the items of the answer that pass
\* validation (question, correct answer, two distractors, a timestamp that
\* reads as a number not below 0), each once, in ascending order of timestamp;
\* an item that fails is left out without any other item being lost.
C16_ValidItemsSorted ==
    (simple_pc = "returned" /\ simple_response.kind = "json") =>
        LET valid == SelectSeq(simple_response.items, PassesValidation)
        IN  /\ IsSortedByTimestamp(simple_questions)
            /\ Len(simple_questions) = Len(valid)
            /\ \A k \in 1..Len(valid) :
                   Cardinality({j \in 1..Len(simple_questions) :
                                   simple_questions[j].question = Strip(valid[k].question, " ")})
                   = Cardinality({j \in 1..Len(valid) : valid[j].question = valid[k].question})

(***************************************************************************)
(* The specifications.                                                     *)
(***************************************************************************)
Next ==
    \/ HandleUrlSubmit /\ UNCHANGED <<idVars, capVars, buildVars, chunkVars, simpleVars>>
    \/ SubmitAnswer /\ UNCHANGED <<idVars, capVars, buildVars, chunkVars, simpleVars>>
    \/ GetCurrentQuestion /\ UNCHANGED <<idVars, capVars, buildVars, chunkVars, simpleVars>>
    \/ JumpToTimestamp /\ UNCHANGED <<idVars, capVars, buildVars, chunkVars, simpleVars>>
    \/ StartNewQuiz /\ UNCHANGED <<idVars, capVars, buildVars, chunkVars, simpleVars>>

Init == QuizInit /\ IdIdle /\ CapIdle /\ BuildIdle /\ ChunkIdle /\ SimpleIdle

Spec == Init /\ [][Next]_vars

IdNext ==
    \/ BuildQAHead /\ UNCHANGED <<quizVars, capVars, buildVars, chunkVars, simpleVars>>
    \/ GetTranscriptHead /\ UNCHANGED <<quizVars, capVars, buildVars, chunkVars, simpleVars>>

InitId == QuizInit /\ IdInit /\ CapIdle /\ BuildIdle /\ ChunkIdle /\ SimpleIdle

SpecId == InitId /\ [][IdNext]_vars

CapNext ==
    \/ FetchCaptionsBegin /\ UNCHANGED <<quizVars, idVars, buildVars, chunkVars, simpleVars>>
    \/ ExtractInfo /\ UNCHANGED <<quizVars, idVars, buildVars, chunkVars, simpleVars>>
    \/ ResolveTracks /\ UNCHANGED <<quizVars, idVars, buildVars, chunkVars, simpleVars>>
    \/ GetTranscriptText /\ UNCHANGED <<quizVars, idVars, buildVars, chunkVars, simpleVars>>

InitCaptions == QuizInit /\ IdIdle /\ CapInit /\ BuildIdle /\ ChunkIdle /\ SimpleIdle

SpecCaptions == InitCaptions /\ [][CapNext]_vars

BuildNext ==
    \/ BuildQABegin /\ UNCHANGED <<quizVars, idVars, capVars, chunkVars, simpleVars>>
    \/ BuildQAChunk /\ UNCHANGED <<quizVars, idVars, capVars, chunkVars, simpleVars>>
    \/ BuildQAEnd /\ UNCHANGED <<quizVars, idVars, capVars, chunkVars, simpleVars>>

InitBuild == QuizInit /\ IdIdle /\ CapIdle /\ BuildInit /\ ChunkIdle /\ SimpleIdle

SpecBuild == InitBuild /\ [][BuildNext]_vars

ChunkNext ==
    \/ ChunkByTime /\ UNCHANGED <<quizVars, idVars, capVars, buildVars, simpleVars>>

InitChunk == QuizInit /\ IdIdle /\ CapIdle /\ BuildIdle /\ ChunkInit /\ SimpleIdle

SpecChunk == InitChunk /\ [][ChunkNext]_vars

SimpleNext ==
    \/ GenerateQuizFromTranscript /\ UNCHANGED <<quizVars, idVars, capVars, buildVars, chunkVars>>

InitSimple == QuizInit /\ IdIdle /\ CapIdle /\ BuildIdle /\ ChunkIdle /\ SimpleInit

SpecSimple == InitSimple /\ [][SimpleNext]_vars

====
